---- MODULE Spec2Model ----
(***************************************************************************)
(* The LMS analytics API: the three dashboards of src/API (student,        *)
(* teacher per course, teacher overall) as operations over the seven       *)
(* tables that load_data reads from the sample_data store.                 *)
(*                                                                         *)
(* Data representation                                                     *)
(*   - a DataFrame is a sequence of records, in row order;                 *)
(*   - a date is a day number, a timestamp a number of minutes, and        *)
(*     ts.date() is ts \div MinPerDay;                                     *)
(*   - a float is an exact rational [n, d] in lowest terms, d > 0;         *)
(*   - NaT is the timestamp NaT, a missing string NaN, and a None-able     *)
(*     response field is the set of its values: {} for None, {v} for v;    *)
(*   - rows derived from submission_fact carry "row", the position of the  *)
(*     submission row they come from (provenance, not a column).           *)
(***************************************************************************)
EXTENDS Integers, Sequences, FiniteSets, TLC

VARIABLES
    base_exists,   \* data.py: BASE.exists()
    user_dim,      \* user_dim.csv        : [user_id, role]
    course_dim,    \* course_dim.csv      : [course_id, fullname]
    enrol,         \* enrol_fact.csv      : [course_id, user_id]
    grade,         \* grade_fact.csv      : [course_id, user_id, item_id, score, maxscore]
    subm,          \* submission_fact.csv : [course_id, user_id, activity_id, submitted_at, duedate]
    events,        \* event_log_staging.csv : [user_id, course_id, timestamp]
    daily,         \* daily_course_kpi.csv  : [course_id, date]
    rating,        \* course_rating.csv : [readable, rows], rows [course_id, avg_rating, num_ratings]
    sysdate,       \* the system date, pd.Timestamp.today().date()
    argsort_ties,  \* how the build's quicksort orders equal keys
    resp           \* the response the server is returning, NoResponse between requests

vars == <<base_exists, user_dim, course_dim, enrol, grade, subm, events, daily,
          rating, sysdate, argsort_ties, resp>>

tables == <<base_exists, user_dim, course_dim, enrol, grade, subm, events, daily,
            rating, argsort_ties>>

\* pandas' missing timestamp (every timestamp of the data is >= 0)
NaT == 0 - 1

\* a missing object value, as a left merge leaves it
NaN == "NaN"

MinPerDay == 24 * 60

\* ts.date()
DateOf(ts) == ts \div MinPerDay

\* date.isoformat() / .dt.date.astype(str): the date as text
IsoFormat(d) == [iso |-> d]

----------------------------------------------------------------------------
(* Bounds and the data the tables are drawn from *)

\* rows of submission_fact drawn freely
MaxSubm == 3
\* unsubmitted past-due rows of one learner in one course
MaxMissing == 11
\* midnights the system clock passes
MaxTicks == 1

\* the day the data is about: the latest date of daily_course_kpi when it has rows
Day0 == 40

\* ids a request may name: 9 is in no table, 1 is a student, 3 a teacher
StudentReqIds == {1, 9}
CourseReqIds == {1, 2, 9}
TeacherReqIds == {1, 3, 9}

\* minutes of day d
At(d, hh, mm) == d * MinPerDay + hh * 60 + mm

SeqsUpTo(S, n) == UNION {[1..k -> S] : k \in 0..n}

----------------------------------------------------------------------------
(* Sequences *)

\* frame[mask], a boolean mask applied to a frame, is SelectSeq(frame, mask)

\* the distinct values of a column
Range(s) == {s[i] : i \in DOMAIN s}

\* mutant of Unique: every value of the column, repeated ones too
Unique_AllRows(s) == s

RECURSIVE Unique(_)
\* Series.unique(): the distinct values in order of first appearance
Unique(s) ==
    IF s = <<>> THEN <<>>
    ELSE LET h == Unique(SubSeq(s, 1, Len(s) - 1))
             x == s[Len(s)]
         IN  IF x \in Range(h) THEN h ELSE Append(h, x)

\* Series.nunique()
NUnique(s) == Cardinality(Range(s))

----------------------------------------------------------------------------
(* Floats as exact rationals *)

Abs(x) == IF x < 0 THEN -x ELSE x

RECURSIVE Gcd(_, _)
Gcd(a, b) == IF b = 0 THEN a ELSE Gcd(b, a % b)

\* n / d in lowest terms, d # 0
Rat(n, d) ==
    LET g == Gcd(Abs(n), Abs(d))
        s == IF d < 0 THEN -1 ELSE 1
    IN  [n |-> (s * n) \div g, d |-> (s * d) \div g]

RInt(k) == [n |-> k, d |-> 1]
RAdd(a, b) == Rat(a.n * b.d + b.n * a.d, a.d * b.d)
RSub(a, b) == Rat(a.n * b.d - b.n * a.d, a.d * b.d)
RMul(a, b) == Rat(a.n * b.n, a.d * b.d)
RDiv(a, b) == Rat(a.n * b.d, a.d * b.n)
RLt(a, b) == a.n * b.d < b.n * a.d
RLe(a, b) == a.n * b.d <= b.n * a.d
\* Python's min(a, b)
RMin(a, b) == IF RLt(b, a) THEN b ELSE a

\* round(x, ndigits) with scale = 10 ^ ndigits: to the nearest 1/scale, halves to even
RoundTo(x, scale) ==
    LET t  == x.n * scale
        q  == t \div x.d
        r2 == 2 * (t % x.d)
        up == r2 > x.d \/ (r2 = x.d /\ q % 2 = 1)
    IN  Rat(IF up THEN q + 1 ELSE q, scale)

\* round(x, 1)
Round1(x) == RoundTo(x, 10)

\* round(x, 2)
Round2(x) == RoundTo(x, 100)

RECURSIVE RSum(_)
RSum(s) == IF s = <<>> THEN RInt(0) ELSE RAdd(s[1], RSum(Tail(s)))

\* Series.mean() of a non-empty series
Mean(s) == RDiv(RSum(s), RInt(Len(s)))

----------------------------------------------------------------------------
(* Sorting *)

\* whether position i comes before position j when numpy's argsort(kind="quicksort")
\* orders keys: by key, equal keys as the build's sort leaves them
Before(keys, i, j, ties) ==
    \/ RLt(keys[i], keys[j])
    \/ /\ keys[i] = keys[j]
       /\ IF ties = "input" THEN i < j ELSE i > j

RECURSIVE ArgSortRem(_, _, _)
ArgSortRem(keys, rem, ties) ==
    IF rem = {} THEN <<>>
    ELSE LET first == CHOOSE i \in rem : \A j \in rem \ {i} : Before(keys, i, j, ties)
         IN  <<first>> \o ArgSortRem(keys, rem \ {first}, ties)

\* ndarray.argsort(kind="quicksort"): the positions of keys in ascending key order
ArgSort(keys) == ArgSortRem(keys, DOMAIN keys, argsort_ties)

Reverse(s) == [i \in DOMAIN s |-> s[Len(s) + 1 - i]]

\* pandas nargsort: ascending, or descending by sorting the reversed keys and
\* reversing the result
NArgSort(keys, ascending) ==
    IF ascending THEN ArgSort(keys)
    ELSE LET n == Len(keys)
             p == ArgSort(Reverse(keys))
         IN  Reverse([i \in DOMAIN p |-> n + 1 - p[i]])

\* mutant of SortValues: the frame is left in its order
SortValues_NoSort(frame, keys, ascending) == frame

\* DataFrame.sort_values(by): the rows of frame in the order nargsort gives
SortValues(frame, keys, ascending) ==
    LET p == NArgSort(keys, ascending) IN [i \in DOMAIN p |-> frame[p[i]]]

----------------------------------------------------------------------------
(* The reference date *)

RECURSIVE MaxOf(_)
\* Series.max() of a non-empty series of numbers
MaxOf(s) ==
    IF Len(s) = 1 THEN s[1]
    ELSE LET m == MaxOf(Tail(s)) IN IF s[1] > m THEN s[1] ELSE m

\* mutant of Today: the system date, whatever daily_course_kpi holds
Today_SystemDate == sysdate

\* today = daily["date"].max().date() if len(daily) else pd.Timestamp.today().date()
Today ==
    IF Len(daily) > 0 THEN MaxOf([i \in DOMAIN daily |-> daily[i].date]) ELSE sysdate

\* Series.max() of timestamps: NaT when the series is empty
MaxTs(s) == IF s = <<>> THEN NaT ELSE MaxOf(s)

----------------------------------------------------------------------------
(* Shared steps of the handlers *)

NoResponse == [op |-> "none", status |-> 0]

\* the server is between two requests
Idle == resp = NoResponse

\* raise HTTPException(status_code, detail)
HTTPException(op, status_code, detail) ==
    [op |-> op, status |-> status_code, detail |-> detail]

\* a column of a frame
Col(frame, Field(_)) == [i \in DOMAIN frame |-> Field(frame[i])]

\* the rows of submission_fact, each with its position
SubmRows ==
    [i \in DOMAIN subm |->
        [row |-> i, course_id |-> subm[i].course_id, user_id |-> subm[i].user_id,
         activity_id |-> subm[i].activity_id, submitted_at |-> subm[i].submitted_at,
         duedate |-> subm[i].duedate]]

RECURSIVE MergeFullname(_)
\* left.merge(course_dim[["course_id", "fullname"]], on="course_id", how="left"):
\* every left row once per course_dim row of its course, in left order, and once
\* with a missing fullname when course_dim has no such row
MergeFullname(left) ==
    IF left = <<>> THEN <<>>
    ELSE LET r  == left[1]
             m  == SelectSeq(course_dim, LAMBDA rw :
                                          rw.course_id = r.course_id)
             WithName(name) ==
                 [row |-> r.row, course_id |-> r.course_id, user_id |-> r.user_id,
                  activity_id |-> r.activity_id, submitted_at |-> r.submitted_at,
                  duedate |-> r.duedate, fullname |-> name]
         IN  (IF m = <<>> THEN << WithName(NaN) >>
              ELSE [j \in DOMAIN m |-> WithName(m[j].fullname)])
             \o MergeFullname(Tail(left))

\* mutant of AvgGradePct: the points earned over the points to earn
AvgGradePct_Weighted(g) ==
    IF Len(g) > 0
    THEN RMul(RDiv(RSum([i \in DOMAIN g |-> RInt(g[i].score)]),
                   RSum([i \in DOMAIN g |-> RInt(g[i].maxscore)])), RInt(100))
    ELSE RInt(0)

\* (score / maxscore).mean() * 100 if len(g) else 0
AvgGradePct(g) ==
    IF Len(g) > 0
    THEN RMul(Mean([i \in DOMAIN g |-> Rat(g[i].score, g[i].maxscore)]), RInt(100))
    ELSE RInt(0)

----------------------------------------------------------------------------
(* GET /student/{user_id}/dashboard *)

Lookahead == 7

\* mutant of DueSoon: the window has no lower end
DueSoon_NoLowerEnd(user_id, today) ==
    MergeFullname(SelectSeq(SubmRows, LAMBDA rw :
        /\ rw.user_id = user_id
        /\ DateOf(rw.duedate) <= today + Lookahead
        /\ rw.submitted_at = NaT))

\* mutant of DueSoon: the window ends before today + 7 days
DueSoon_OpenEnd(user_id, today) ==
    MergeFullname(SelectSeq(SubmRows, LAMBDA rw :
        /\ rw.user_id = user_id
        /\ DateOf(rw.duedate) >= today
        /\ DateOf(rw.duedate) < today + Lookahead
        /\ rw.submitted_at = NaT))

\* due_soon: the user's unsubmitted rows due in [today, today + 7 days]
DueSoon(user_id, today) ==
    MergeFullname(SelectSeq(SubmRows, LAMBDA rw :
        /\ rw.user_id = user_id
        /\ DateOf(rw.duedate) >= today
        /\ DateOf(rw.duedate) <= today + Lookahead
        /\ rw.submitted_at = NaT))

\* mutant of Missing: a row due today is missing already
Missing_DueToday(user_id, today) ==
    MergeFullname(SelectSeq(SubmRows, LAMBDA rw :
        /\ rw.user_id = user_id
        /\ DateOf(rw.duedate) <= today
        /\ rw.submitted_at = NaT))

\* missing: the user's unsubmitted rows due before today
Missing(user_id, today) ==
    MergeFullname(SelectSeq(SubmRows, LAMBDA rw :
        /\ rw.user_id = user_id
        /\ DateOf(rw.duedate) < today
        /\ rw.submitted_at = NaT))

\* frame[["fullname", "activity_id", "duedate"]].sort_values("duedate")
\*     .assign(duedate = date as text).to_dict(orient="records")
TaskRows(frame) ==
    LET sorted == SortValues(frame, [i \in DOMAIN frame |-> RInt(frame[i].duedate)], TRUE)
    IN  [i \in DOMAIN sorted |->
            [row |-> sorted[i].row, fullname |-> sorted[i].fullname,
             activity_id |-> sorted[i].activity_id,
             duedate |-> IsoFormat(DateOf(sorted[i].duedate))]]

\* mutant of ProgressPct: every submitted row counts, and only the items graded
\* for the user
ProgressPct_RowsOverOwnItems(user_id, course_id) ==
    LET total_items ==
            NUnique(Col(SelectSeq(grade, LAMBDA rw :
                                  rw.course_id = course_id /\ rw.user_id = user_id),
                        LAMBDA r : r.item_id))
        completed_items ==
            Len(SelectSeq(subm, LAMBDA rw :
                                  /\ rw.course_id = course_id
                                  /\ rw.user_id = user_id
                                  /\ rw.submitted_at # NaT))
    IN  IF total_items # 0 THEN Rat(100 * completed_items, total_items) ELSE RInt(0)

\* 100 * completed_items / total_items if total_items else 0
ProgressPct(user_id, course_id) ==
    LET total_items ==
            NUnique(Col(SelectSeq(grade, LAMBDA rw : rw.course_id = course_id),
                        LAMBDA r : r.item_id))
        completed_items ==
            NUnique(Col(SelectSeq(subm, LAMBDA rw :
                                  /\ rw.course_id = course_id
                                  /\ rw.user_id = user_id
                                  /\ rw.submitted_at # NaT),
                        LAMBDA r : r.activity_id))
    IN  IF total_items # 0 THEN Rat(100 * completed_items, total_items) ELSE RInt(0)

\* mutant of student_dashboard: the user is looked up before the data store is
\* checked
student_dashboard_LookupFirst(user_id, course_id) ==
    IF user_id \notin Range(Col(user_dim, LAMBDA r : r.user_id))
    THEN HTTPException("student", 404, "user_id not found")
    ELSE IF ~base_exists THEN HTTPException("student", 500, "sample_data not found")
    ELSE
    LET today == Today
        course_row == SelectSeq(course_dim, LAMBDA rw :
                                             rw.course_id = course_id)
    IN
    IF course_row = <<>> THEN HTTPException("student", 404, "course_id not found")
    ELSE
    LET df_grade == SelectSeq(grade, LAMBDA rw :
                              rw.course_id = course_id /\ rw.user_id = user_id)
        due_soon == DueSoon(user_id, today)
        missing  == Missing(user_id, today)
        last_active_ts ==
            MaxTs(Col(SelectSeq(events, LAMBDA rw : rw.user_id = user_id),
                      LAMBDA r : r.timestamp))
    IN  [op             |-> "student",
         status         |-> 200,
         user_id        |-> user_id,    \* the request's path parameter
         today          |-> today,      \* the reference date of the request
         course_id      |-> course_id,
         course_name    |-> course_row[1].fullname,
         progress_pct   |-> Round1(ProgressPct(user_id, course_id)),
         avg_grade_pct  |-> Round1(AvgGradePct(df_grade)),
         due_soon_count |-> Len(due_soon),
         missing_count  |-> Len(missing),
         last_active    |-> IF last_active_ts = NaT THEN {}
                            ELSE {IsoFormat(DateOf(last_active_ts))},
         days_inactive  |-> IF last_active_ts = NaT THEN {}
                            ELSE {today - DateOf(last_active_ts)},
         missing_tasks  |-> TaskRows(missing),
         due_soon_tasks |-> TaskRows(due_soon)]

\* mutant of student_dashboard: the tasks are those of the requested course
student_dashboard_TasksOfCourse(user_id, course_id) ==
    IF ~base_exists THEN HTTPException("student", 500, "sample_data not found")
    ELSE IF user_id \notin Range(Col(user_dim, LAMBDA r : r.user_id))
    THEN HTTPException("student", 404, "user_id not found")
    ELSE
    LET today == Today
        course_row == SelectSeq(course_dim, LAMBDA rw :
                                             rw.course_id = course_id)
    IN
    IF course_row = <<>> THEN HTTPException("student", 404, "course_id not found")
    ELSE
    LET df_grade == SelectSeq(grade, LAMBDA rw :
                              rw.course_id = course_id /\ rw.user_id = user_id)
        due_soon == SelectSeq(DueSoon(user_id, today), LAMBDA rw :
                                                        rw.course_id = course_id)
        missing  == SelectSeq(Missing(user_id, today), LAMBDA rw :
                                                        rw.course_id = course_id)
        last_active_ts ==
            MaxTs(Col(SelectSeq(events, LAMBDA rw : rw.user_id = user_id),
                      LAMBDA r : r.timestamp))
    IN  [op             |-> "student",
         status         |-> 200,
         user_id        |-> user_id,    \* the request's path parameter
         today          |-> today,      \* the reference date of the request
         course_id      |-> course_id,
         course_name    |-> course_row[1].fullname,
         progress_pct   |-> Round1(ProgressPct(user_id, course_id)),
         avg_grade_pct  |-> Round1(AvgGradePct(df_grade)),
         due_soon_count |-> Len(due_soon),
         missing_count  |-> Len(missing),
         last_active    |-> IF last_active_ts = NaT THEN {}
                            ELSE {IsoFormat(DateOf(last_active_ts))},
         days_inactive  |-> IF last_active_ts = NaT THEN {}
                            ELSE {today - DateOf(last_active_ts)},
         missing_tasks  |-> TaskRows(missing),
         due_soon_tasks |-> TaskRows(due_soon)]

student_dashboard(user_id, course_id) ==
    IF ~base_exists THEN HTTPException("student", 500, "sample_data not found")
    ELSE IF user_id \notin Range(Col(user_dim, LAMBDA r : r.user_id))
    THEN HTTPException("student", 404, "user_id not found")
    ELSE
    LET today == Today
        course_row == SelectSeq(course_dim, LAMBDA rw :
                                             rw.course_id = course_id)
    IN
    IF course_row = <<>> THEN HTTPException("student", 404, "course_id not found")
    ELSE
    LET df_grade == SelectSeq(grade, LAMBDA rw :
                              rw.course_id = course_id /\ rw.user_id = user_id)
        due_soon == DueSoon(user_id, today)
        missing  == Missing(user_id, today)
        last_active_ts ==
            MaxTs(Col(SelectSeq(events, LAMBDA rw : rw.user_id = user_id),
                      LAMBDA r : r.timestamp))
    IN  [op             |-> "student",
         status         |-> 200,
         user_id        |-> user_id,    \* the request's path parameter
         today          |-> today,      \* the reference date of the request
         course_id      |-> course_id,
         course_name    |-> course_row[1].fullname,
         progress_pct   |-> Round1(ProgressPct(user_id, course_id)),
         avg_grade_pct  |-> Round1(AvgGradePct(df_grade)),
         due_soon_count |-> Len(due_soon),
         missing_count  |-> Len(missing),
         last_active    |-> IF last_active_ts = NaT THEN {}
                            ELSE {IsoFormat(DateOf(last_active_ts))},
         days_inactive  |-> IF last_active_ts = NaT THEN {}
                            ELSE {today - DateOf(last_active_ts)},
         missing_tasks  |-> TaskRows(missing),
         due_soon_tasks |-> TaskRows(due_soon)]

StudentDashboard(user_id, course_id) ==
    /\ Idle
    /\ resp' = student_dashboard(user_id, course_id)
    /\ UNCHANGED <<tables, sysdate>>

----------------------------------------------------------------------------
(* The per-learner risk of the teacher dashboards *)

NoEventDays == 30
InactivityDays == 30
MissingWeight == 10
RiskCap == 100

\* avg_pct, grade_risk
GradeRisk(stu_grade) == RSub(RInt(100), AvgGradePct(stu_grade))

\* mutant of MissingRisk: not capped
MissingRisk_NoCap(miss_cnt) == RInt(miss_cnt * MissingWeight)

\* missing_risk = min(100, miss_cnt * 10)
MissingRisk(miss_cnt) == RMin(RInt(RiskCap), RInt(miss_cnt * MissingWeight))

\* inactivity = (today - last.date()).days if pd.notna(last) else 30
Inactivity(last, today) == IF last # NaT THEN today - DateOf(last) ELSE NoEventDays

\* inactivity_risk = min(100, inactivity / 30 * 100)
InactivityRisk(last, today) ==
    RMin(RInt(RiskCap), RMul(Rat(Inactivity(last, today), InactivityDays), RInt(100)))

\* mutant of Risk: the grades weigh twice
Risk_GradesTwice(stu_grade, miss_cnt, last, today) ==
    RDiv(RAdd(RAdd(RMul(RInt(2), GradeRisk(stu_grade)), MissingRisk(miss_cnt)),
              InactivityRisk(last, today)),
         RInt(4))

\* risk = (grade_risk + missing_risk + inactivity_risk) / 3
Risk(stu_grade, miss_cnt, last, today) ==
    RDiv(RAdd(RAdd(GradeRisk(stu_grade), MissingRisk(miss_cnt)),
              InactivityRisk(last, today)),
         RInt(3))

\* missing.groupby("user_id").size().get(uid, 0)
MissCnt(missing, uid) ==
    Len(SelectSeq(missing, LAMBDA rw : rw.user_id = uid))

\* s[(s.submitted_at.isna()) & (s.duedate.dt.date < today)]
MissingIn(s, today) ==
    SelectSeq(s, LAMBDA rw : rw.submitted_at = NaT /\ DateOf(rw.duedate) < today)

\* missing.groupby("user_id").size(): one [user_id, size] per user, by ascending user_id
RECURSIVE GroupSizeFrom(_, _)
GroupSizeFrom(missing, uids) ==
    IF uids = {} THEN <<>>
    ELSE LET u == CHOOSE x \in uids : \A y \in uids : x <= y
         IN  << [user_id |-> u, size |-> MissCnt(missing, u)] >>
             \o GroupSizeFrom(missing, uids \ {u})

GroupSize(missing) == GroupSizeFrom(missing, Range(Col(missing, LAMBDA r : r.user_id)))

at_risk_threshold == 60
RiskTopLen == 10

\* mutant of RiskDf: the rows stay in the order of the risk loop
RiskDf_Unsorted(risk_rows) == risk_rows

\* DataFrame(risk_rows).sort_values("risk_pct", ascending=False)
RiskDf(risk_rows) ==
    SortValues(risk_rows, [i \in DOMAIN risk_rows |-> risk_rows[i].risk_pct], FALSE)

\* mutant of AtRiskCount: a risk of exactly the threshold counts
AtRiskCount_Inclusive(risk_df) ==
    Len(SelectSeq(risk_df, LAMBDA rw : RLe(RInt(at_risk_threshold), rw.risk_pct)))

\* int((risk_df["risk_pct"] > at_risk_threshold).sum())
AtRiskCount(risk_df) ==
    Len(SelectSeq(risk_df, LAMBDA rw :
                            RLt(RInt(at_risk_threshold), rw.risk_pct)))

\* mutant of AtRiskPct: an empty cohort counts as wholly at risk
AtRiskPct_EmptyIsAll(risk_df) ==
    IF Len(risk_df) > 0
    THEN RMul(Rat(AtRiskCount(risk_df), Len(risk_df)), RInt(100))
    ELSE RInt(100)

\* (at_risk_count / len(risk_df) * 100) if len(risk_df) else 0
AtRiskPct(risk_df) ==
    IF Len(risk_df) > 0
    THEN RMul(Rat(AtRiskCount(risk_df), Len(risk_df)), RInt(100))
    ELSE RInt(0)

\* risk_df.head(10)
HeadRows(frame, n) == SubSeq(frame, 1, IF Len(frame) < n THEN Len(frame) ELSE n)

----------------------------------------------------------------------------
(* GET /teacher/course/{course_id}/dashboard *)

\* mutant of CourseRiskRows: the learner's events of every course count
CourseRiskRows_AnyCourseEvents(course_id, today) ==
    LET cohort == Unique(Col(SelectSeq(enrol, LAMBDA rw :
                                               rw.course_id = course_id),
                             LAMBDA r : r.user_id))
        g == SelectSeq(grade, LAMBDA rw : rw.course_id = course_id)
        s == SelectSeq(SubmRows, LAMBDA rw : rw.course_id = course_id)
        missing == MissingIn(s, today)
    IN  [k \in DOMAIN cohort |->
            LET uid == cohort[k]
                stu_grade == SelectSeq(g, LAMBDA rw : rw.user_id = uid)
                last == MaxTs(Col(SelectSeq(events, LAMBDA rw : rw.user_id = uid),
                                  LAMBDA r : r.timestamp))
            IN  [user_id |-> uid,
                 risk_pct |-> Risk(stu_grade, MissCnt(missing, uid), last, today)]]

\* the risk loop over enrol[enrol.course_id == course_id]["user_id"].unique()
CourseRiskRows(course_id, today) ==
    LET cohort == Unique(Col(SelectSeq(enrol, LAMBDA rw :
                                               rw.course_id = course_id),
                             LAMBDA r : r.user_id))
        g == SelectSeq(grade, LAMBDA rw : rw.course_id = course_id)
        s == SelectSeq(SubmRows, LAMBDA rw : rw.course_id = course_id)
        missing == MissingIn(s, today)
    IN  [k \in DOMAIN cohort |->
            LET uid == cohort[k]
                stu_grade == SelectSeq(g, LAMBDA rw : rw.user_id = uid)
                last == MaxTs(Col(SelectSeq(events, LAMBDA rw :
                                            /\ rw.course_id = course_id
                                            /\ rw.user_id = uid),
                                  LAMBDA r : r.timestamp))
            IN  [user_id |-> uid,
                 risk_pct |-> Risk(stu_grade, MissCnt(missing, uid), last, today)]]

\* mutant of CourseRating: the first row of the file, whatever its course
CourseRating_FirstRow(course_id) ==
    IF rating.readable /\ Len(rating.rows) > 0
    THEN [avg_rating |-> rating.rows[1].avg_rating,
          num_ratings |-> rating.rows[1].num_ratings]
    ELSE [avg_rating |-> 0, num_ratings |-> 0]

\* the optional course_rating.csv: float(avg_rating) and int(num_ratings) of the
\* first row of the course (the data holds whole numbers, which both conversions
\* leave as they are), 0 and 0 when the file cannot be read, has no row or has no
\* row of the course
CourseRating(course_id) ==
    LET row == IF rating.readable
               THEN SelectSeq(rating.rows, LAMBDA rw :
                                            rw.course_id = course_id)
               ELSE <<>>
    IN  IF rating.readable /\ Len(rating.rows) > 0 /\ Len(row) > 0
        THEN [avg_rating |-> row[1].avg_rating, num_ratings |-> row[1].num_ratings]
        ELSE [avg_rating |-> 0, num_ratings |-> 0]

teacher_course_dashboard(course_id) ==
    IF ~base_exists THEN HTTPException("teacher_course", 500, "sample_data not found")
    ELSE
    LET course_row == SelectSeq(course_dim, LAMBDA rw :
                                             rw.course_id = course_id)
    IN
    IF course_row = <<>> THEN HTTPException("teacher_course", 404, "course_id not found")
    ELSE
    LET today == Today
        enrolled == Col(SelectSeq(enrol, LAMBDA rw : rw.course_id = course_id),
                        LAMBDA r : r.user_id)
        g == SelectSeq(grade, LAMBDA rw : rw.course_id = course_id)
        s == SelectSeq(SubmRows, LAMBDA rw : rw.course_id = course_id)
        missing == MissingIn(s, today)
        sizes == GroupSize(missing)
        missing_per_student ==
            SortValues(sizes, [i \in DOMAIN sizes |-> RInt(sizes[i].size)], FALSE)
        risk_df == RiskDf(CourseRiskRows(course_id, today))
    IN  [op                  |-> "teacher_course",
         status              |-> 200,
         today               |-> today,      \* the reference date of the request
         course_id           |-> course_id,
         course_name         |-> course_row[1].fullname,
         total_students      |-> NUnique(enrolled),
         avg_grade_pct       |-> Round1(AvgGradePct(g)),
         missing_submissions |-> Len(missing),
         course_rating       |-> CourseRating(course_id),
         at_risk_pct         |-> Round1(AtRiskPct(risk_df)),
         at_risk_count       |-> AtRiskCount(risk_df),
         risk_top            |-> HeadRows(risk_df, RiskTopLen),
         risk_df             |-> risk_df,    \* the whole cohort, of which risk_top is the head
         missing_per_student |-> missing_per_student]

TeacherCourseDashboard(course_id) ==
    /\ Idle
    /\ resp' = teacher_course_dashboard(course_id)
    /\ UNCHANGED <<tables, sysdate>>

----------------------------------------------------------------------------
(* GET /teacher/{teacher_id}/dashboard *)

InactiveDays == 7
GapMin == 1
GapMax == 30

\* enrol[enrol.user_id == teacher_id]["course_id"].unique()
TeacherCourses(teacher_id) ==
    Unique(Col(SelectSeq(enrol, LAMBDA rw : rw.user_id = teacher_id),
               LAMBDA r : r.course_id))

\* mutant of StudentsInCourses: the enrolled users of every role
StudentsInCourses_AnyRole(teacher_courses) ==
    Unique(Col(SelectSeq(enrol, LAMBDA rw :
                                 rw.course_id \in Range(teacher_courses)),
               LAMBDA r : r.user_id))

\* the users of role student enrolled in one of the courses, in order of first enrolment row
StudentsInCourses(teacher_courses) ==
    LET student_ids ==
            Range(Col(SelectSeq(user_dim, LAMBDA rw :
                                           rw.role = "student"),
                      LAMBDA r : r.user_id))
        uids == Unique(Col(SelectSeq(enrol, LAMBDA rw :
                                             rw.course_id \in Range(teacher_courses)),
                           LAMBDA r : r.user_id))
    IN  SelectSeq(uids, LAMBDA rw : rw \in student_ids)

\* the students whose latest event, in any course, is dated before today - 7 days
InactiveStudents7d(students, today) ==
    LET LastOf(u) == MaxTs(Col(SelectSeq(events, LAMBDA rw :
                                                 rw.user_id = u),
                               LAMBDA r : r.timestamp))
    IN  Cardinality({u \in Range(students) :
                        /\ LastOf(u) # NaT
                        /\ DateOf(LastOf(u)) < today - InactiveDays})

\* mutant of OverallRiskRows: the missing rows of every course count
OverallRiskRows_AllCourses(teacher_courses, students, today) ==
    LET g == SelectSeq(grade, LAMBDA rw : rw.course_id \in Range(teacher_courses))
        missing == MissingIn(SubmRows, today)
    IN  [k \in DOMAIN students |->
            LET uid == students[k]
                stu_grade == SelectSeq(g, LAMBDA rw : rw.user_id = uid)
                last == MaxTs(Col(SelectSeq(events, LAMBDA rw :
                                      /\ rw.user_id = uid
                                      /\ rw.course_id \in Range(teacher_courses)),
                                  LAMBDA r : r.timestamp))
            IN  [user_id |-> uid,
                 risk_pct |-> Risk(stu_grade, MissCnt(missing, uid), last, today)]]

\* the risk loop over students_in_teacher_courses
OverallRiskRows(teacher_courses, students, today) ==
    LET g == SelectSeq(grade, LAMBDA rw :
                               rw.course_id \in Range(teacher_courses))
        s == SelectSeq(SubmRows, LAMBDA rw :
                                  rw.course_id \in Range(teacher_courses))
        missing == MissingIn(s, today)
    IN  [k \in DOMAIN students |->
            LET uid == students[k]
                stu_grade == SelectSeq(g, LAMBDA rw : rw.user_id = uid)
                last == MaxTs(Col(SelectSeq(events, LAMBDA rw :
                                      /\ rw.user_id = uid
                                      /\ rw.course_id \in Range(teacher_courses)),
                                  LAMBDA r : r.timestamp))
            IN  [user_id |-> uid,
                 risk_pct |-> Risk(stu_grade, MissCnt(missing, uid), last, today)]]

RECURSIVE GapsOf(_)
\* next_ts - timestamp, in minutes, along one user's events in timestamp order
GapsOf(ts) ==
    IF Len(ts) < 2 THEN <<>> ELSE <<ts[2] - ts[1]>> \o GapsOf(Tail(ts))

RECURSIVE SessionGapsFrom(_, _)
\* session_gap_min of events_tc sorted by user_id and timestamp, user by user
SessionGapsFrom(events_tc, uids) ==
    IF uids = {} THEN <<>>
    ELSE LET u  == CHOOSE x \in uids : \A y \in uids : x <= y
             ts == Col(SelectSeq(events_tc, LAMBDA rw :
                                             rw.user_id = u),
                       LAMBDA r : r.timestamp)
             p  == ArgSortRem([i \in DOMAIN ts |-> RInt(ts[i])], DOMAIN ts, "input")
         IN  GapsOf([i \in DOMAIN p |-> ts[p[i]]])
             \o SessionGapsFrom(events_tc, uids \ {u})

\* Series.between(1, 30), both ends included
Between(x, lo, hi) == lo <= x /\ x <= hi

\* round(session_gap_min.mean() / 60, 2) over the gaps kept; NaN ({}) when none is
AvgLearningHours(teacher_courses, students) ==
    LET events_tc == SelectSeq(events, LAMBDA rw :
                                /\ rw.user_id \in Range(students)
                                /\ rw.course_id \in Range(teacher_courses))
        gaps == SessionGapsFrom(events_tc, Range(Col(events_tc, LAMBDA r : r.user_id)))
        kept == SelectSeq(gaps, LAMBDA rw : Between(rw, GapMin, GapMax))
    IN  IF kept = <<>> THEN {}
        ELSE {Round2(RDiv(Mean([i \in DOMAIN kept |-> RInt(kept[i])]), RInt(60)))}

RECURSIVE MergeIndicator_AnyItem(_, _)
\* mutant of MergeIndicator: the merge keys are course_id and user_id only
MergeIndicator_AnyItem(left, g) ==
    IF left = <<>> THEN <<>>
    ELSE LET r == left[1]
             m == SelectSeq(g, LAMBDA rw :
                                /\ rw.course_id = r.course_id
                                /\ rw.user_id = r.user_id)
         IN  (IF m = <<>> THEN << [row |-> r.row, is_overdue |-> r.is_overdue,
                                   merge |-> "left_only"] >>
              ELSE [j \in DOMAIN m |-> [row |-> r.row, is_overdue |-> r.is_overdue,
                                         merge |-> "both"]])
             \o MergeIndicator_AnyItem(Tail(left), g)

RECURSIVE MergeIndicator(_, _)
\* submitted.merge(graded_keys, left_on=[course_id, user_id, activity_id],
\*                  right_on=[course_id, user_id, item_id], how="left", indicator=True)
MergeIndicator(left, g) ==
    IF left = <<>> THEN <<>>
    ELSE LET r == left[1]
             m == SelectSeq(g, LAMBDA rw :
                                /\ rw.course_id = r.course_id
                                /\ rw.user_id = r.user_id
                                /\ rw.item_id = r.activity_id)
         IN  (IF m = <<>> THEN << [row |-> r.row, is_overdue |-> r.is_overdue,
                                   merge |-> "left_only"] >>
              ELSE [j \in DOMAIN m |-> [row |-> r.row, is_overdue |-> r.is_overdue,
                                         merge |-> "both"]])
             \o MergeIndicator(Tail(left), g)

\* the submitted, overdue rows of the courses that no grade row matches
UngradedSubmissions(teacher_courses, today) ==
    LET g == SelectSeq(grade, LAMBDA rw :
                               rw.course_id \in Range(teacher_courses))
        s == SelectSeq(SubmRows, LAMBDA rw :
                                  rw.course_id \in Range(teacher_courses))
        sub == SelectSeq(s, LAMBDA rw : rw.submitted_at # NaT)
        submitted == [i \in DOMAIN sub |->
                         [row |-> sub[i].row, course_id |-> sub[i].course_id,
                          user_id |-> sub[i].user_id, activity_id |-> sub[i].activity_id,
                          is_overdue |-> DateOf(sub[i].duedate) < today]]
        merged == MergeIndicator(submitted, g)
    IN  Len(SelectSeq(merged, LAMBDA rw :
                               rw.is_overdue /\ rw.merge = "left_only"))

\* mutant of teacher_overall_dashboard: a user of any role passes for a teacher
teacher_overall_dashboard_AnyRole(teacher_id) ==
    IF ~base_exists THEN HTTPException("teacher_overall", 500, "sample_data not found")
    ELSE IF teacher_id \notin Range(Col(user_dim, LAMBDA r : r.user_id))
    THEN HTTPException("teacher_overall", 404, "teacher_id not found")
    ELSE
    LET today == Today
        teacher_courses == TeacherCourses(teacher_id)
        students == StudentsInCourses(teacher_courses)
        risk_df == RiskDf(OverallRiskRows(teacher_courses, students, today))
    IN  [op                   |-> "teacher_overall",
         status               |-> 200,
         today                |-> today,      \* the reference date of the request
         teacher_id           |-> teacher_id,
         total_students       |-> Len(students),
         total_courses        |-> Len(teacher_courses),
         inactive_students_7d |-> InactiveStudents7d(students, today),
         at_risk_pct          |-> Round1(AtRiskPct(risk_df)),
         at_risk_count        |-> AtRiskCount(risk_df),
         avg_learning_hours_teacher_courses |-> AvgLearningHours(teacher_courses, students),
         ungraded_submissions |-> UngradedSubmissions(teacher_courses, today),
         risk_top             |-> HeadRows(risk_df, RiskTopLen),
         risk_df              |-> risk_df]    \* the whole cohort, of which risk_top is the head

teacher_overall_dashboard(teacher_id) ==
    IF ~base_exists THEN HTTPException("teacher_overall", 500, "sample_data not found")
    ELSE IF teacher_id \notin
            Range(Col(SelectSeq(user_dim, LAMBDA rw :
                                           rw.role = "teacher"),
                      LAMBDA r : r.user_id))
    THEN HTTPException("teacher_overall", 404, "teacher_id not found")
    ELSE
    LET today == Today
        teacher_courses == TeacherCourses(teacher_id)
        students == StudentsInCourses(teacher_courses)
        risk_df == RiskDf(OverallRiskRows(teacher_courses, students, today))
    IN  [op                   |-> "teacher_overall",
         status               |-> 200,
         today                |-> today,      \* the reference date of the request
         teacher_id           |-> teacher_id,
         total_students       |-> Len(students),
         total_courses        |-> Len(teacher_courses),
         inactive_students_7d |-> InactiveStudents7d(students, today),
         at_risk_pct          |-> Round1(AtRiskPct(risk_df)),
         at_risk_count        |-> AtRiskCount(risk_df),
         avg_learning_hours_teacher_courses |-> AvgLearningHours(teacher_courses, students),
         ungraded_submissions |-> UngradedSubmissions(teacher_courses, today),
         risk_top             |-> HeadRows(risk_df, RiskTopLen),
         risk_df              |-> risk_df]    \* the whole cohort, of which risk_top is the head

\* mutant of TeacherOverallDashboard: the events are sorted by user_id and
\* timestamp in the table itself
TeacherOverallDashboard_SortInPlace(teacher_id) ==
    /\ Idle
    /\ resp' = teacher_overall_dashboard(teacher_id)
    /\ events' = LET keys == [i \in DOMAIN events |->
                                 RInt(events[i].user_id * 1000000 + events[i].timestamp)]
                      p == ArgSortRem(keys, DOMAIN keys, "input")
                  IN  [i \in DOMAIN p |-> events[p[i]]]
    /\ UNCHANGED <<base_exists, user_dim, course_dim, enrol, grade, subm, daily,
                   rating, sysdate, argsort_ties>>

TeacherOverallDashboard(teacher_id) ==
    /\ Idle
    /\ resp' = teacher_overall_dashboard(teacher_id)
    /\ UNCHANGED <<tables, sysdate>>

----------------------------------------------------------------------------
(* The environment *)

\* the client receives the response
Deliver ==
    /\ ~Idle
    /\ resp' = NoResponse
    /\ UNCHANGED <<tables, sysdate>>

\* the last day number of the system clock
MaxSysDate == Day0 + MaxTicks

\* the system clock passes midnight
Tick ==
    /\ sysdate < MaxSysDate
    /\ sysdate' = sysdate + 1
    /\ UNCHANGED <<tables, resp>>

----------------------------------------------------------------------------
(* The tables *)

Users0 ==
    << [user_id |-> 1, role |-> "student"], [user_id |-> 2, role |-> "student"],
       [user_id |-> 3, role |-> "teacher"] >>

Courses0 ==
    << [course_id |-> 1, fullname |-> "Backend Internship"],
       [course_id |-> 2, fullname |-> "Frontend Internship"] >>

\* user 3 teaches course 1; users 1 and 2 learn there, user 2 in course 2 as well
Enrol0 ==
    << [course_id |-> 1, user_id |-> 1], [course_id |-> 1, user_id |-> 2],
       [course_id |-> 1, user_id |-> 3], [course_id |-> 2, user_id |-> 2] >>

Daily0 == << [course_id |-> 1, date |-> Day0 - 1], [course_id |-> 1, date |-> Day0] >>

NoRating == [readable |-> FALSE, rows |-> <<>>]

TieRules == {"input", "reverse"}

G(c, u, i, sc, mx) ==
    [course_id |-> c, user_id |-> u, item_id |-> i, score |-> sc, maxscore |-> mx]

S(c, u, a, sub, due) ==
    [course_id |-> c, user_id |-> u, activity_id |-> a, submitted_at |-> sub, duedate |-> due]

E(u, c, ts) == [user_id |-> u, course_id |-> c, timestamp |-> ts]

InitTables(Grades, Subms, Events, Dailies) ==
    /\ base_exists = TRUE
    /\ user_dim = Users0
    /\ course_dim = Courses0
    /\ enrol = Enrol0
    /\ grade \in Grades
    /\ subm \in Subms
    /\ events \in Events
    /\ daily \in Dailies
    /\ rating = NoRating
    /\ sysdate = Day0
    /\ argsort_ties \in TieRules
    /\ resp = NoResponse

Next ==
    \/ \E u \in StudentReqIds, c \in CourseReqIds : StudentDashboard(u, c)
    \/ \E c \in CourseReqIds : TeacherCourseDashboard(c)
    \/ \E t \in TeacherReqIds : TeacherOverallDashboard(t)
    \/ Deliver
    \/ Tick

----------------------------------------------------------------------------
(* The student's tasks: submission rows of the due-soon window drawn freely *)

\* a row of the pool, as the row of activity a
T(u, c, sub, due) == [user_id |-> u, course_id |-> c, submitted_at |-> sub, duedate |-> due]

\* user 1's unsubmitted rows due two days before Day0, on the last minute before
\* Day0, on Day0's first minute, on the last minute of Day0 + 7 and, in course 2,
\* on the first minute of Day0 + 8; a row user 1 submitted late; a row of user 2
TaskSubmPool ==
    { T(1, 1, NaT, At(Day0 - 2, 12, 0)),
      T(1, 1, NaT, At(Day0 - 1, 23, 59)),
      T(1, 1, NaT, At(Day0, 0, 0)),
      T(1, 1, NaT, At(Day0 + 7, 23, 59)),
      T(1, 2, NaT, At(Day0 + 8, 0, 0)),
      T(1, 1, At(Day0, 8, 0), At(Day0 - 1, 23, 59)),
      T(2, 1, NaT, At(Day0, 0, 0)) }

\* the tables of up to MaxSubm pool rows, row i being the row of activity i
TaskSubms ==
    { [i \in DOMAIN t |-> S(t[i].course_id, t[i].user_id, i, t[i].submitted_at, t[i].duedate)] :
        t \in SeqsUpTo(TaskSubmPool, MaxSubm) }

TaskGrades == { << G(1, 1, 1, 80, 100), G(1, 2, 2, 60, 100) >> }

TaskEvents == { << E(1, 1, At(Day0 - 3, 9, 0)), E(1, 2, At(Day0 - 1, 9, 0)) >> }

\* with no daily_course_kpi row the reference date is the system date
InitTasks == InitTables(TaskGrades, TaskSubms, TaskEvents, {<<>>, Daily0})

SpecTasks == InitTasks /\ [][Next]_vars

\* the server is returning a student dashboard
StudentOk == resp.op = "student" /\ resp.status = 200

\* the submission rows a task list shows
RowsOf(tasks) == {tasks[k].row : k \in DOMAIN tasks}

\* every entry of a task list shows its submission row: the activity and the due date
ShowsRows(tasks) ==
    \A k \in DOMAIN tasks :
        /\ tasks[k].row \in DOMAIN subm
        /\ tasks[k].activity_id = subm[tasks[k].row].activity_id
        /\ tasks[k].duedate = IsoFormat(subm[tasks[k].row].duedate \div MinPerDay)

\* C3: task classification is a partition: no submission row is in both
\* missing_tasks and due_soon_tasks, and a row with a non-null submitted_at is in
\* neither, whatever its due date.
C3_Partition ==
    StudentOk =>
        /\ RowsOf(resp.missing_tasks) \cap RowsOf(resp.due_soon_tasks) = {}
        /\ \A i \in DOMAIN subm :
               subm[i].submitted_at # NaT =>
                   i \notin RowsOf(resp.missing_tasks) \cup RowsOf(resp.due_soon_tasks)

\* a dashboard with a missing and a due-soon task, for a user who also has a row
\* submitted after its due date
C3_Witness ==
    /\ StudentOk
    /\ resp.missing_tasks # <<>>
    /\ resp.due_soon_tasks # <<>>
    /\ \E i \in DOMAIN subm :
           /\ subm[i].user_id = resp.user_id
           /\ subm[i].submitted_at # NaT
           /\ subm[i].submitted_at > subm[i].duedate

\* C4: due_soon_tasks holds exactly the user's rows with a null submitted_at and
\* as_of <= date(duedate) <= as_of + 7, each once: a row due on as_of is due-soon
\* and not missing, a row due on as_of + 7 is due-soon, a row due later is in
\* neither list.
C4_DueSoonExact ==
    StudentOk =>
        LET want == {i \in DOMAIN subm :
                        /\ subm[i].user_id = resp.user_id
                        /\ subm[i].submitted_at = NaT
                        /\ resp.today <= subm[i].duedate \div MinPerDay
                        /\ subm[i].duedate \div MinPerDay <= resp.today + 7}
        IN  /\ RowsOf(resp.due_soon_tasks) = want
            /\ Len(resp.due_soon_tasks) = Cardinality(want)
            /\ resp.due_soon_count = Cardinality(want)
            /\ ShowsRows(resp.due_soon_tasks)
            /\ \A i \in DOMAIN subm :
                   /\ subm[i].duedate \div MinPerDay = resp.today =>
                          i \notin RowsOf(resp.missing_tasks)
                   /\ subm[i].duedate \div MinPerDay > resp.today + 7 =>
                          i \notin RowsOf(resp.missing_tasks) \cup RowsOf(resp.due_soon_tasks)

\* the user has unsubmitted rows due on as_of, on as_of + 7 and on as_of + 8: the
\* first two are listed as due soon
C4_Witness ==
    /\ StudentOk
    /\ \E i, j, k \in DOMAIN subm :
           /\ subm[i].duedate \div MinPerDay = resp.today
           /\ subm[j].duedate \div MinPerDay = resp.today + 7
           /\ subm[k].duedate \div MinPerDay = resp.today + 8
           /\ \A x \in {i, j, k} : subm[x].user_id = resp.user_id /\ subm[x].submitted_at = NaT
           /\ {i, j} \subseteq RowsOf(resp.due_soon_tasks)

\* C5: missing_tasks holds exactly the user's rows with a null submitted_at and
\* date(duedate) < as_of, each once, and no other row.
C5_MissingExact ==
    StudentOk =>
        LET want == {i \in DOMAIN subm :
                        /\ subm[i].user_id = resp.user_id
                        /\ subm[i].submitted_at = NaT
                        /\ subm[i].duedate \div MinPerDay < resp.today}
        IN  /\ RowsOf(resp.missing_tasks) = want
            /\ Len(resp.missing_tasks) = Cardinality(want)
            /\ resp.missing_count = Cardinality(want)
            /\ ShowsRows(resp.missing_tasks)

\* the user's row due the day before as_of is listed as missing, and another
\* user's unsubmitted past-due row is in the table
C5_Witness ==
    /\ StudentOk
    /\ \E i, k \in DOMAIN subm :
           /\ subm[i].user_id = resp.user_id /\ subm[i].submitted_at = NaT
           /\ subm[i].duedate \div MinPerDay = resp.today - 1
           /\ i \in RowsOf(resp.missing_tasks)
           /\ subm[k].user_id # resp.user_id /\ subm[k].submitted_at = NaT
           /\ subm[k].duedate \div MinPerDay < resp.today

\* a task list is in ascending order of the due timestamps of its rows
SortedByDue(tasks) ==
    \A a, b \in DOMAIN tasks :
        a < b => subm[tasks[a].row].duedate <= subm[tasks[b].row].duedate

\* rows of a task list with the same due timestamp are in the order of the table
TiesInInputOrder(tasks) ==
    \A a, b \in DOMAIN tasks :
        (a < b /\ subm[tasks[a].row].duedate = subm[tasks[b].row].duedate) =>
            tasks[a].row < tasks[b].row

C2_ProgressInRange ==
    StudentOk => RLe(RInt(0), resp.progress_pct) /\ RLe(resp.progress_pct, RInt(100))

----------------------------------------------------------------------------
(* The risk of a learner: grades, missing rows and events of user 1 drawn from cases *)

\* user 1's grades: none; 100 %; 80 % and 60 %; a score above maxscore; a score
\* below zero; 60 % of a smaller maxscore next to a grade in course 2
RiskGrades ==
    { <<>>,
      << G(1, 1, 1, 100, 100) >>,
      << G(1, 1, 1, 80, 100), G(1, 1, 2, 60, 100) >>,
      << G(1, 1, 1, 120, 100) >>,
      << G(1, 1, 1, 0 - 50, 100) >>,
      << G(2, 1, 1, 0, 100), G(1, 1, 1, 30, 50) >> }

\* rows next to the missing ones: none; user 1's missing row in course 2; a row
\* user 1 submitted and a row not yet due, both in course 1
RiskOtherSubms ==
    { <<>>,
      << S(2, 1, 1, NaT, At(Day0 - 5, 12, 0)) >>,
      << S(1, 1, 20, At(Day0 - 1, 8, 0), At(Day0 - 2, 12, 0)),
         S(1, 1, 21, NaT, At(Day0, 0, 0)) >> }

\* k unsubmitted rows of user 1 in course 1 due before Day0, after the other rows
RiskSubms ==
    { other \o [i \in 1..k |-> S(1, 1, i, NaT, At(Day0 - 1, 23, 59))] :
        other \in RiskOtherSubms, k \in 0..MaxMissing }

\* user 1's events: none; 40 days ago; 27 and 24 days ago; late on Day0; the day
\* after Day0; in course 2 only
RiskEvents ==
    { <<>>,
      << E(1, 1, At(Day0 - 40, 9, 0)) >>,
      << E(1, 1, At(Day0 - 24, 22, 0)), E(1, 1, At(Day0 - 27, 9, 0)) >>,
      << E(1, 1, At(Day0, 23, 0)) >>,
      << E(1, 1, At(Day0 + 1, 8, 0)) >>,
      << E(1, 2, At(Day0, 10, 0)) >> }

InitRisk == InitTables(RiskGrades, RiskSubms, RiskEvents, {Daily0})

SpecRisk == InitRisk /\ [][Next]_vars

\* the server is returning a teacher dashboard
TeacherOk == resp.op \in {"teacher_course", "teacher_overall"} /\ resp.status = 200

\* the courses a teacher dashboard is about
ScopeOf(r) ==
    IF r.op = "teacher_course" THEN {r.course_id}
    ELSE {enrol[i].course_id : i \in {j \in DOMAIN enrol : enrol[j].user_id = r.teacher_id}}

\* the grade rows of a learner in the courses
GradesOf(uid, scope) ==
    {i \in DOMAIN grade : grade[i].user_id = uid /\ grade[i].course_id \in scope}

RECURSIVE PctSum(_)
\* the sum of score / maxscore * 100 over grade rows
PctSum(I) ==
    IF I = {} THEN RInt(0)
    ELSE LET i == CHOOSE x \in I : TRUE
         IN  RAdd(Rat(grade[i].score * 100, grade[i].maxscore), PctSum(I \ {i}))

\* 100 - avg_grade_pct, the average being 0 without grade rows
GradeRiskOf(uid, scope) ==
    LET I == GradesOf(uid, scope)
    IN  IF I = {} THEN RInt(100)
        ELSE RSub(RInt(100), RDiv(PctSum(I), RInt(Cardinality(I))))

\* the unsubmitted rows of a learner in the courses that were due before as_of
MissingOf(uid, scope, as_of) ==
    {i \in DOMAIN subm :
        /\ subm[i].user_id = uid /\ subm[i].course_id \in scope
        /\ subm[i].submitted_at = NaT
        /\ subm[i].duedate \div MinPerDay < as_of}

\* min(100, 10 * missing_count)
MissingRiskOf(uid, scope, as_of) ==
    LET n == Cardinality(MissingOf(uid, scope, as_of))
    IN  RInt(IF 10 * n > 100 THEN 100 ELSE 10 * n)

\* the timestamps of a learner's events in the courses
EventsOf(uid, scope) ==
    {events[i].timestamp :
        i \in {j \in DOMAIN events : events[j].user_id = uid /\ events[j].course_id \in scope}}

\* whole days from the learner's latest event in the courses to as_of; 30 without one
InactivityDaysOf(uid, scope, as_of) ==
    LET ts == EventsOf(uid, scope)
    IN  IF ts = {} THEN 30
        ELSE as_of - ((CHOOSE t \in ts : \A u \in ts : u <= t) \div MinPerDay)

\* min(100, inactivity_days / 30 * 100)
InactivityRiskOf(uid, scope, as_of) ==
    LET x == Rat(InactivityDaysOf(uid, scope, as_of) * 100, 30)
    IN  IF RLt(RInt(100), x) THEN RInt(100) ELSE x

\* C1: every learner of a teacher dashboard has 0 <= risk_pct <= 100, whatever the
\* grade, submission and event tables hold: also with an event after the as-of
\* date or a score outside 0 .. maxscore.
C1_RiskInRange ==
    TeacherOk =>
        \A k \in DOMAIN resp.risk_df :
            /\ RLe(RInt(0), resp.risk_df[k].risk_pct)
            /\ RLe(resp.risk_df[k].risk_pct, RInt(100))

\* C7: the risk_pct of every learner of a teacher dashboard is
\* (grade_risk + missing_risk + inactivity_risk) / 3, with grade_risk = 100 -
\* avg_grade_pct over the learner's grades in scope, missing_risk = min(100, 10 *
\* missing_count) and inactivity_risk = min(100, inactivity_days / 30 * 100),
\* inactivity_days being the whole days from the learner's latest event in scope
\* to as_of.
C7_RiskIsMean ==
    TeacherOk =>
        \A k \in DOMAIN resp.risk_df :
            LET uid == resp.risk_df[k].user_id
                sc  == ScopeOf(resp)
            IN  RMul(RInt(3), resp.risk_df[k].risk_pct)
                  = RAdd(RAdd(GradeRiskOf(uid, sc), MissingRiskOf(uid, sc, resp.today)),
                         InactivityRiskOf(uid, sc, resp.today))

\* a learner with two grades (80 % and 60 %), two events (the later one 24 days
\* before as_of) and 3 missing rows: risk (30 + 30 + 80) / 3
C7_Witness ==
    /\ TeacherOk
    /\ \E k \in DOMAIN resp.risk_df :
           LET uid == resp.risk_df[k].user_id
               sc  == ScopeOf(resp)
           IN  /\ Cardinality(GradesOf(uid, sc)) = 2
               /\ Cardinality(EventsOf(uid, sc)) = 2
               /\ Cardinality(MissingOf(uid, sc, resp.today)) = 3
               /\ resp.risk_df[k].risk_pct = Rat(140, 3)

\* C8: a learner with no grade row, no event and at least 10 missing rows in scope
\* has a risk_pct of exactly 100, in both teacher dashboards.
C8_SaturatedRisk ==
    TeacherOk =>
        \A k \in DOMAIN resp.risk_df :
            LET uid == resp.risk_df[k].user_id
                sc  == ScopeOf(resp)
            IN  ( /\ GradesOf(uid, sc) = {}
                  /\ EventsOf(uid, sc) = {}
                  /\ Cardinality(MissingOf(uid, sc, resp.today)) >= 10 )
                => resp.risk_df[k].risk_pct = RInt(100)

\* a learner with 11 missing rows in scope, and neither a grade nor an event there
\* but an event in another course, has the risk 100
C8_Witness ==
    /\ TeacherOk
    /\ \E k \in DOMAIN resp.risk_df :
           LET uid == resp.risk_df[k].user_id
               sc  == ScopeOf(resp)
           IN  /\ GradesOf(uid, sc) = {}
               /\ EventsOf(uid, sc) = {}
               /\ \E i \in DOMAIN events : events[i].user_id = uid
               /\ Cardinality(MissingOf(uid, sc, resp.today)) = 11
               /\ resp.risk_df[k].risk_pct = RInt(100)

\* the learners of the cohort whose risk_pct is above t
RiskAbove(t) ==
    {k \in DOMAIN resp.risk_df : resp.risk_df[k].risk_pct.n > t * resp.risk_df[k].risk_pct.d}

\* C9: at_risk_count counts exactly the learners with risk_pct > 60: a learner with
\* a risk_pct of exactly 60 is not at risk.
C9_AtRiskAbove60 ==
    TeacherOk => resp.at_risk_count = Cardinality(RiskAbove(60))

\* a cohort with a learner at exactly 60 and learners above: the first is not counted
C9_Witness ==
    /\ TeacherOk
    /\ \E k \in DOMAIN resp.risk_df : resp.risk_df[k].risk_pct = RInt(60)
    /\ resp.at_risk_count > 0
    /\ resp.at_risk_count < Len(resp.risk_df)

\* C10: the missing_count behind a learner's missing_risk counts only the
\* unsubmitted past-due rows of the dashboard's courses (the course of
\* teacher_course_dashboard, the teacher's courses of teacher_overall_dashboard):
\* rows of other courses do not change risk_pct, and missing_risk is 100 from 10
\* missing rows on.
C10_MissingInScope ==
    TeacherOk =>
        \A k \in DOMAIN resp.risk_df :
            LET uid == resp.risk_df[k].user_id
                sc  == ScopeOf(resp)
                n   == Cardinality(MissingOf(uid, sc, resp.today))
                missing_risk ==
                    RSub(RSub(RMul(RInt(3), resp.risk_df[k].risk_pct), GradeRiskOf(uid, sc)),
                         InactivityRiskOf(uid, sc, resp.today))
            IN  /\ n < 10 => missing_risk = RInt(10 * n)
                /\ n >= 10 => missing_risk = RInt(100)
                /\ resp.op = "teacher_course" =>
                       resp.missing_submissions =
                           Cardinality({i \in DOMAIN subm :
                                           /\ subm[i].course_id = resp.course_id
                                           /\ subm[i].submitted_at = NaT
                                           /\ subm[i].duedate \div MinPerDay < resp.today})

\* a learner with 9 missing rows in scope and one in a course out of scope
C10_Witness ==
    /\ TeacherOk
    /\ \E k \in DOMAIN resp.risk_df :
           LET uid == resp.risk_df[k].user_id
               sc  == ScopeOf(resp)
           IN  /\ Cardinality(MissingOf(uid, sc, resp.today)) = 9
               /\ \E i \in DOMAIN subm :
                      /\ subm[i].user_id = uid /\ subm[i].course_id \notin sc
                      /\ subm[i].submitted_at = NaT
                      /\ subm[i].duedate \div MinPerDay < resp.today

\* the inactivity_risk behind the risk_pct of row k of the cohort: what is left of
\* 3 * risk_pct without the grade_risk and the missing_risk
InactivityRiskIn(k) ==
    LET uid == resp.risk_df[k].user_id
        sc  == ScopeOf(resp)
    IN  RSub(RSub(RMul(RInt(3), resp.risk_df[k].risk_pct), GradeRiskOf(uid, sc)),
             MissingRiskOf(uid, sc, resp.today))

\* C11: a learner with no event in scope has an inactivity_risk of exactly 100
\* (inactivity_days = 30); in teacher_course_dashboard the scope is the course, so
\* events of other courses do not count.
C11_NoEventSentinel ==
    TeacherOk =>
        \A k \in DOMAIN resp.risk_df :
            EventsOf(resp.risk_df[k].user_id, ScopeOf(resp)) = {}
                => InactivityRiskIn(k) = RInt(100)

\* a course dashboard with a learner whose only event, on the as-of date, is in
\* another course: the inactivity_risk is 100
C11_Witness ==
    /\ resp.op = "teacher_course" /\ resp.status = 200
    /\ \E k \in DOMAIN resp.risk_df :
           LET uid == resp.risk_df[k].user_id
           IN  /\ EventsOf(uid, {resp.course_id}) = {}
               /\ \E i \in DOMAIN events :
                      /\ events[i].user_id = uid
                      /\ events[i].course_id # resp.course_id
                      /\ events[i].timestamp \div MinPerDay = resp.today
               /\ InactivityRiskIn(k) = RInt(100)

----------------------------------------------------------------------------
(* Cohorts: course 1 with its teacher and a number of learners, course 2 with nobody *)

\* learners enrolled in course 1
MaxCohort == 11

\* the user_id of the i-th learner
Learner(i) == 10 + i

CohortUsers(n) == Users0 \o [i \in 1..n |-> [user_id |-> Learner(i), role |-> "student"]]

\* the teacher's row, one row per learner and a second row of the first learner
CohortEnrol(n) ==
    << [course_id |-> 1, user_id |-> 3] >>
    \o [i \in 1..n |-> [course_id |-> 1, user_id |-> Learner(i)]]
    \o (IF n > 0 THEN << [course_id |-> 1, user_id |-> Learner(1)] >> ELSE <<>>)

\* how the one grade of each learner depends on the learner: not at all (no grade
\* rows), rising or falling along the enrolment rows, the same for all, or mixed
ScorePatterns == {"none", "rising", "falling", "equal", "mixed"}

Score(pat, i) ==
    CASE pat = "rising"  -> 5 * i
      [] pat = "falling" -> 100 - 5 * i
      [] pat = "equal"   -> 50
      [] OTHER           -> ((7 * i) % 5) * 20

CohortGrades(n, pat) ==
    IF pat = "none" THEN <<>>
    ELSE [i \in 1..n |-> G(1, Learner(i), 1, Score(pat, i), 100)]

\* no submission row, or a row user 1 submitted in course 1
CohortSubms == { <<>>, << S(1, 1, 1, At(Day0 - 1, 8, 0), At(Day0, 12, 0)) >> }

InitCohort ==
    \E n \in 0..MaxCohort, pat \in ScorePatterns :
        /\ base_exists = TRUE
        /\ user_dim = CohortUsers(n)
        /\ course_dim = Courses0
        /\ enrol = CohortEnrol(n)
        /\ grade = CohortGrades(n, pat)
        /\ subm \in CohortSubms
        /\ events = <<>>
        /\ daily = Daily0
        /\ rating = NoRating
        /\ sysdate = Day0
        /\ argsort_ties \in TieRules
        /\ resp = NoResponse

SpecCohort == InitCohort /\ [][Next]_vars

\* the ids of the tables
UserIds == {user_dim[i].user_id : i \in DOMAIN user_dim}
CourseIds == {course_dim[i].course_id : i \in DOMAIN course_dim}
TeacherIds == {user_dim[i].user_id : i \in {j \in DOMAIN user_dim : user_dim[j].role = "teacher"}}

\* the users enrolled in one of the courses
EnrolledIn(scope) ==
    {enrol[i].user_id : i \in {j \in DOMAIN enrol : enrol[j].course_id \in scope}}

\* C12: a zero denominator is not an error and gives 0: progress_pct when the
\* course has no grade row, avg_grade_pct when no grade row matches, at_risk_pct
\* when the cohort is empty; every request whose ids are in the tables is answered.
C12_ZeroDenominators ==
    /\ \A u \in StudentReqIds \cap UserIds, c \in CourseReqIds \cap CourseIds :
           student_dashboard(u, c).status = 200
    /\ \A c \in CourseReqIds \cap CourseIds : teacher_course_dashboard(c).status = 200
    /\ \A t \in TeacherReqIds \cap TeacherIds : teacher_overall_dashboard(t).status = 200
    /\ StudentOk =>
           /\ (\A i \in DOMAIN grade : grade[i].course_id # resp.course_id)
                  => resp.progress_pct = RInt(0)
           /\ GradesOf(resp.user_id, {resp.course_id}) = {} => resp.avg_grade_pct = RInt(0)
    /\ (resp.op = "teacher_course" /\ resp.status = 200) =>
           /\ (\A i \in DOMAIN grade : grade[i].course_id # resp.course_id)
                  => resp.avg_grade_pct = RInt(0)
           /\ EnrolledIn({resp.course_id}) = {}
                  => resp.at_risk_pct = RInt(0) /\ resp.at_risk_count = 0
    /\ ( /\ resp.op = "teacher_overall" /\ resp.status = 200
          /\ \A u \in EnrolledIn(ScopeOf(resp)) : u \notin UserIds \/ u \in TeacherIds )
           => resp.at_risk_pct = RInt(0) /\ resp.at_risk_count = 0

\* the overall dashboard of a teacher whose course has no learner: at_risk_pct is 0
C12_Witness ==
    /\ resp.op = "teacher_overall" /\ resp.status = 200
    /\ resp.total_courses = 1
    /\ resp.total_students = 0
    /\ resp.risk_df = <<>>
    /\ resp.at_risk_pct = RInt(0)

----------------------------------------------------------------------------
(* Graded work: submissions of user 1 and grade rows that match them or not *)

\* rows of submission_fact drawn freely from the pool of graded work
MaxWork == 3

\* user 1 in course 1: activity 1 submitted and overdue, activity 1 submitted
\* again, activity 2 submitted and due on Day0, activity 3 submitted and overdue,
\* activity 4 overdue and not submitted; activity 1 of course 2
WorkSubmPool ==
    { S(1, 1, 1, At(Day0 - 3, 8, 0), At(Day0 - 2, 12, 0)),
      S(1, 1, 1, At(Day0 - 1, 8, 0), At(Day0 - 2, 12, 0)),
      S(1, 1, 2, At(Day0 - 1, 8, 0), At(Day0, 12, 0)),
      S(1, 1, 3, At(Day0 - 4, 8, 0), At(Day0 - 3, 12, 0)),
      S(1, 1, 4, NaT, At(Day0 - 2, 12, 0)),
      S(2, 1, 1, At(Day0 - 3, 8, 0), At(Day0 - 2, 12, 0)) }

WorkSubms == SeqsUpTo(WorkSubmPool, MaxWork)

\* no grade; user 1's items 1 and 2; item 1 graded twice and user 2's item 3;
\* item 1 graded in course 2 and for user 2, item 3 for user 1; five items of
\* course 1 with several maxscores
WorkGrades ==
    { <<>>,
      << G(1, 1, 1, 80, 100), G(1, 1, 2, 60, 100) >>,
      << G(1, 1, 1, 80, 100), G(1, 1, 1, 90, 100), G(1, 2, 3, 50, 100) >>,
      << G(2, 1, 1, 70, 100), G(1, 2, 1, 30, 50), G(1, 1, 3, 90, 100) >>,
      << G(1, 1, 1, 30, 50), G(1, 1, 2, 90, 100), G(1, 2, 3, 50, 100),
         G(1, 2, 4, 1, 3), G(1, 2, 5, 100, 100) >> }

InitWork == InitTables(WorkGrades, WorkSubms, {<<>>}, {Daily0})

SpecWork == InitWork /\ [][Next]_vars

\* the grade rows that match submission row i: same course, same user, item_id
\* equal to the activity_id
GradeRowsFor(i) ==
    {j \in DOMAIN grade :
        /\ grade[j].course_id = subm[i].course_id
        /\ grade[j].user_id = subm[i].user_id
        /\ grade[j].item_id = subm[i].activity_id}

\* the submitted rows of the courses that were due before as_of
SubmittedOverdue(scope, as_of) ==
    {i \in DOMAIN subm :
        /\ subm[i].course_id \in scope
        /\ subm[i].submitted_at # NaT
        /\ subm[i].duedate \div MinPerDay < as_of}

\* C13: ungraded_submissions of teacher_overall_dashboard is the number of
\* submission rows of the teacher's courses that are submitted, due before as_of
\* and matched by no grade row (same course_id and user_id, item_id = activity_id):
\* a row with one or several matching grade rows is not counted, an unmatched row
\* is counted once.
C13_UngradedAntiJoin ==
    (resp.op = "teacher_overall" /\ resp.status = 200) =>
        resp.ungraded_submissions =
            Cardinality({i \in SubmittedOverdue(ScopeOf(resp), resp.today) :
                            GradeRowsFor(i) = {}})

\* one overdue submitted row with two matching grade rows and one with a grade row
\* of another user only: ungraded_submissions is 1
C13_Witness ==
    /\ resp.op = "teacher_overall" /\ resp.status = 200
    /\ resp.ungraded_submissions = 1
    /\ \E i, k \in SubmittedOverdue(ScopeOf(resp), resp.today) :
           /\ Cardinality(GradeRowsFor(i)) = 2
           /\ GradeRowsFor(k) = {}
           /\ \E j \in DOMAIN grade :
                  /\ grade[j].item_id = subm[k].activity_id
                  /\ grade[j].user_id # subm[k].user_id

----------------------------------------------------------------------------
(* Sessions: events of users 1 and 2 with gaps around the 1 and 30 minute ends *)

\* the minute the events are counted from, on the morning of the day before Day0
T0 == At(Day0 - 1, 9, 0)

\* events of course 1: none; one; pairs of user 1 with a gap of 1, 30, 0, 31 and
\* 10 minutes; gaps of 10 and 1; gaps of 10 and 20 with the rows out of order;
\* gaps of 30 and 12; an event of user 2 ten minutes after one of user 1; two
\* events 20 minutes apart with an event of course 2 between them
GapEvents ==
    { <<>>,
      << E(1, 1, T0) >>,
      << E(1, 1, T0), E(1, 1, T0 + 1) >>,
      << E(1, 1, T0), E(1, 1, T0 + 30) >>,
      << E(1, 1, T0), E(1, 1, T0) >>,
      << E(1, 1, T0), E(1, 1, T0 + 31) >>,
      << E(1, 1, T0), E(1, 1, T0 + 10) >>,
      << E(1, 1, T0), E(1, 1, T0 + 10), E(1, 1, T0 + 11) >>,
      << E(1, 1, T0 + 30), E(1, 1, T0), E(1, 1, T0 + 10) >>,
      << E(1, 1, T0), E(1, 1, T0 + 30), E(1, 1, T0 + 42) >>,
      << E(1, 1, T0), E(2, 1, T0 + 10) >>,
      << E(1, 1, T0), E(1, 2, T0 + 5), E(1, 1, T0 + 20) >> }

InitGaps == InitTables({<<>>}, {<<>>}, GapEvents, {Daily0})

SpecGaps == InitGaps /\ [][Next]_vars

\* the event rows of the learners of a teacher's courses in those courses
EventsInScope(scope) ==
    {i \in DOMAIN events :
        /\ events[i].course_id \in scope
        /\ events[i].user_id \in EnrolledIn(scope)
        /\ \E u \in DOMAIN user_dim :
               user_dim[u].user_id = events[i].user_id /\ user_dim[u].role = "student"}

\* event row i is earlier than event row j of the same user
Earlier(i, j) ==
    /\ events[i].user_id = events[j].user_id
    /\ \/ events[i].timestamp < events[j].timestamp
       \/ events[i].timestamp = events[j].timestamp /\ i < j

\* the pairs of consecutive events of one user, with the minutes between them
ConsecutiveGaps(scope) ==
    LET I == EventsInScope(scope)
    IN  { <<i, j, events[j].timestamp - events[i].timestamp>> :
            <<i, j>> \in {p \in I \X I :
                            /\ Earlier(p[1], p[2])
                            /\ ~ \E k \in I : Earlier(p[1], k) /\ Earlier(k, p[2])} }

RECURSIVE GapSum(_)
GapSum(P) ==
    IF P = {} THEN 0 ELSE LET p == CHOOSE x \in P : TRUE IN p[3] + GapSum(P \ {p})

\* C14: the learning hours of teacher_overall_dashboard average the gaps between
\* consecutive events of one user that are strictly between 1 and 30 minutes: a
\* gap of exactly 1 or of exactly 30 minutes is left out.
C14_StrictGaps ==
    (resp.op = "teacher_overall" /\ resp.status = 200) =>
        LET kept == {p \in ConsecutiveGaps(ScopeOf(resp)) : 1 < p[3] /\ p[3] < 30}
        IN  kept # {} =>
                resp.avg_learning_hours_teacher_courses =
                    {Round2(Rat(GapSum(kept), 60 * Cardinality(kept)))}

----------------------------------------------------------------------------
(* The clock: a daily_course_kpi table with rows or without, and midnights passing *)

\* no row; the rows of two days; the rows of two courses, the latest day first
ClockDailies ==
    { <<>>, Daily0,
      << [course_id |-> 2, date |-> Day0], [course_id |-> 1, date |-> Day0 - 1] >> }

\* user 1's rows: none; a row due on Day0 next to a submitted one; a row due on
\* Day0 + 8 next to a row of course 2 due on the last minute before Day0
ClockSubms ==
    { <<>>,
      << S(1, 1, 1, NaT, At(Day0, 12, 0)), S(1, 1, 2, At(Day0 - 1, 9, 0), At(Day0, 0, 0)) >>,
      << S(1, 1, 1, NaT, At(Day0 + 8, 0, 0)), S(2, 1, 2, NaT, At(Day0 - 1, 23, 59)) >> }

\* no event; user 1's event 8 days before Day0; user 1's event on Day0 and user
\* 2's event 7 days before Day0
ClockEvents ==
    { <<>>,
      << E(1, 1, At(Day0 - 8, 9, 0)) >>,
      << E(1, 1, At(Day0, 9, 0)), E(2, 1, At(Day0 - 7, 9, 0)) >> }

InitClock == InitTables(TaskGrades, ClockSubms, ClockEvents, ClockDailies)

SpecClock == InitClock /\ [][Next]_vars

\* the latest date of daily_course_kpi, the system date when it has no row
AsOf ==
    IF daily = <<>> THEN sysdate
    ELSE CHOOSE d \in {daily[i].date : i \in DOMAIN daily} :
             \A i \in DOMAIN daily : daily[i].date <= d

\* the learners of the courses: the enrolled users of role student
StudentsOf(scope) ==
    {u \in EnrolledIn(scope) :
        \E i \in DOMAIN user_dim : user_dim[i].user_id = u /\ user_dim[i].role = "student"}

\* the day of a user's latest event in any course, as a set: empty without event
LastEventDay(u) ==
    LET ts == {events[i].timestamp : i \in {j \in DOMAIN events : events[j].user_id = u}}
    IN  {t \div MinPerDay : t \in {x \in ts : \A y \in ts : y <= x}}

\* every date comparison behind the student dashboard r was made against day d
StudentAnchored(r, d) ==
    /\ RowsOf(r.missing_tasks) =
           {i \in DOMAIN subm : /\ subm[i].user_id = r.user_id /\ subm[i].submitted_at = NaT
                                /\ subm[i].duedate \div MinPerDay < d}
    /\ RowsOf(r.due_soon_tasks) =
           {i \in DOMAIN subm : /\ subm[i].user_id = r.user_id /\ subm[i].submitted_at = NaT
                                /\ d <= subm[i].duedate \div MinPerDay
                                /\ subm[i].duedate \div MinPerDay <= d + 7}
    /\ r.days_inactive = {d - l : l \in LastEventDay(r.user_id)}

\* every date comparison behind the risk rows of the teacher dashboard r was made
\* against day d
RiskAnchored(r, d) ==
    \A k \in DOMAIN r.risk_df :
        LET uid == r.risk_df[k].user_id
            sc  == ScopeOf(r)
        IN  RMul(RInt(3), r.risk_df[k].risk_pct)
              = RAdd(RAdd(GradeRiskOf(uid, sc), MissingRiskOf(uid, sc, d)),
                     InactivityRiskOf(uid, sc, d))

\* the same for the other figures of the two teacher dashboards
TeacherAnchored(r, d) ==
    /\ RiskAnchored(r, d)
    /\ r.op = "teacher_course" =>
           r.missing_submissions =
               Cardinality({i \in DOMAIN subm : /\ subm[i].course_id = r.course_id
                                                /\ subm[i].submitted_at = NaT
                                                /\ subm[i].duedate \div MinPerDay < d})
    /\ r.op = "teacher_overall" =>
           /\ r.inactive_students_7d =
                  Cardinality({u \in StudentsOf(ScopeOf(r)) :
                                  \E l \in LastEventDay(u) : l < d - 7})
           /\ r.ungraded_submissions =
                  Cardinality({i \in SubmittedOverdue(ScopeOf(r), d) : GradeRowsFor(i) = {}})

\* C15: the as-of date of a dashboard call is the latest date of daily_course_kpi,
\* the system date when that table has no row, and every due-date, missing-work
\* and inactivity comparison of the call is made against that one date.
C15_OneAnchor ==
    [][ (Idle /\ resp'.status = 200) =>
            IF resp'.op = "student" THEN StudentAnchored(resp', AsOf)
            ELSE TeacherAnchored(resp', AsOf) ]_vars

\* a student dashboard computed with no daily_course_kpi row after a midnight has
\* passed: the row due on Day0 is missing and the event of Day0 is a day old
C15_Witness ==
    /\ StudentOk
    /\ daily = <<>>
    /\ sysdate = Day0 + 1
    /\ resp.days_inactive = {1}
    /\ \E k \in DOMAIN resp.missing_tasks :
           subm[resp.missing_tasks[k].row].duedate \div MinPerDay = Day0

\* a task list as the client reads it
TaskPayload(tasks) ==
    [k \in DOMAIN tasks |->
        [fullname |-> tasks[k].fullname, activity_id |-> tasks[k].activity_id,
         duedate |-> tasks[k].duedate]]

\* the response as the client reads it: an error as it is, a dashboard without
\* the request's reference date and the rows of the whole cohort
Payload(r) ==
    IF r.status # 200 THEN <<r.status, r.detail>>
    ELSE IF r.op = "student"
    THEN <<r.course_id, r.course_name, r.progress_pct, r.avg_grade_pct, r.due_soon_count,
           r.missing_count, r.last_active, r.days_inactive,
           TaskPayload(r.missing_tasks), TaskPayload(r.due_soon_tasks)>>
    ELSE IF r.op = "teacher_course"
    THEN <<r.course_id, r.course_name, r.total_students, r.avg_grade_pct,
           r.missing_submissions, r.course_rating, r.at_risk_pct, r.at_risk_count,
           r.risk_top, r.missing_per_student>>
    ELSE <<r.teacher_id, r.total_students, r.total_courses, r.inactive_students_7d,
           r.at_risk_pct, r.at_risk_count, r.avg_learning_hours_teacher_courses,
           r.ungraded_submissions, r.risk_top>>

\* C16: a dashboard called twice with the same arguments and unchanged tables
\* gives the same output, also when daily_course_kpi has no row: while a response
\* is being returned, the same call made again returns the same.
C16_Idempotent ==
    /\ StudentOk =>
           Payload(student_dashboard(resp.user_id, resp.course_id)) = Payload(resp)
    /\ (resp.op = "teacher_course" /\ resp.status = 200) =>
           Payload(teacher_course_dashboard(resp.course_id)) = Payload(resp)
    /\ (resp.op = "teacher_overall" /\ resp.status = 200) =>
           Payload(teacher_overall_dashboard(resp.teacher_id)) = Payload(resp)

\* C17: a lookup by an id that its dimension table does not hold fails with a
\* not-found error and no payload: student_dashboard for an unknown user_id or
\* course_id, teacher_course_dashboard for an unknown course_id,
\* teacher_overall_dashboard for a teacher_id that is unknown or not of role
\* teacher.
C17_NotFound ==
    /\ \A u \in StudentReqIds, c \in CourseReqIds :
           /\ u \notin UserIds =>
                  student_dashboard(u, c) =
                      [op |-> "student", status |-> 404, detail |-> "user_id not found"]
           /\ (u \in UserIds /\ c \notin CourseIds) =>
                  student_dashboard(u, c) =
                      [op |-> "student", status |-> 404, detail |-> "course_id not found"]
    /\ \A c \in CourseReqIds \ CourseIds :
           teacher_course_dashboard(c) =
               [op |-> "teacher_course", status |-> 404, detail |-> "course_id not found"]
    /\ \A t \in TeacherReqIds \ TeacherIds :
           teacher_overall_dashboard(t) =
               [op |-> "teacher_overall", status |-> 404, detail |-> "teacher_id not found"]
    /\ resp.status = 404 => DOMAIN resp = {"op", "status", "detail"}

\* the overall dashboard answers not found, as it does for the id of a student
\* and for an id that no user has
C17_Witness ==
    /\ resp.op = "teacher_overall" /\ resp.status = 404
    /\ \E t, x \in TeacherReqIds :
           /\ t \in UserIds \ TeacherIds /\ resp = teacher_overall_dashboard(t)
           /\ x \notin UserIds /\ resp = teacher_overall_dashboard(x)

\* the distinct items graded in a course, for whichever learner
ItemsOf(course_id) ==
    {grade[i].item_id : i \in {j \in DOMAIN grade : grade[j].course_id = course_id}}

\* the distinct activities of a course that a user has submitted
SubmittedBy(user_id, course_id) ==
    {subm[i].activity_id :
        i \in {j \in DOMAIN subm : /\ subm[j].course_id = course_id
                                    /\ subm[j].user_id = user_id
                                    /\ subm[j].submitted_at # NaT}}

\* C18: the progress of student_dashboard is 100 * completed_items / total_items,
\* total_items being the distinct item_id of all grade rows of the course, of any
\* learner, and completed_items the distinct activity_id of the user's submitted
\* rows of the course: a row submitted twice counts once; 5 items and 3 submitted
\* activities give 60.0. The response carries the value rounded to one decimal.
C18_ProgressRatio ==
    StudentOk =>
        LET total_items == Cardinality(ItemsOf(resp.course_id))
            completed_items == Cardinality(SubmittedBy(resp.user_id, resp.course_id))
        IN  total_items # 0 =>
                /\ ProgressPct(resp.user_id, resp.course_id)
                       = Rat(100 * completed_items, total_items)
                /\ resp.progress_pct = Round1(Rat(100 * completed_items, total_items))

\* a course of 5 items, 3 of them graded for another learner only, and a user
\* with 3 submitted rows of 2 activities: the progress is 40.0
C18_Witness ==
    /\ StudentOk
    /\ Cardinality(ItemsOf(resp.course_id)) = 5
    /\ Cardinality({i \in DOMAIN grade : /\ grade[i].course_id = resp.course_id
                                          /\ grade[i].user_id = resp.user_id}) = 2
    /\ Cardinality({i \in DOMAIN subm : /\ subm[i].course_id = resp.course_id
                                         /\ subm[i].user_id = resp.user_id
                                         /\ subm[i].submitted_at # NaT}) = 3
    /\ Cardinality(SubmittedBy(resp.user_id, resp.course_id)) = 2
    /\ resp.progress_pct = RInt(40)

\* the mean of score / maxscore * 100 over grade rows, every row weighing the same
MeanPct(I) == RDiv(PctSum(I), RInt(Cardinality(I)))

\* C19: avg_grade_pct is the unweighted mean of score / maxscore * 100 over the
\* matching grade rows, whatever their maxscore, and not sum(score) /
\* sum(maxscore): in the student dashboard over the user's rows of the course, in
\* the teacher-course dashboard over the rows of the course, and in the risk of a
\* learner, whose grade_risk is 100 minus that mean. The two dashboards carry the
\* value rounded to one decimal.
C19_UnweightedMean ==
    /\ StudentOk =>
           LET I == GradesOf(resp.user_id, {resp.course_id})
           IN  I # {} => resp.avg_grade_pct = Round1(MeanPct(I))
    /\ (resp.op = "teacher_course" /\ resp.status = 200) =>
           LET J == {i \in DOMAIN grade : grade[i].course_id = resp.course_id}
           IN  J # {} => resp.avg_grade_pct = Round1(MeanPct(J))
    /\ TeacherOk =>
           \A k \in DOMAIN resp.risk_df :
               LET uid == resp.risk_df[k].user_id
                   sc  == ScopeOf(resp)
                   I   == GradesOf(uid, sc)
                   grade_risk ==
                       RSub(RSub(RMul(RInt(3), resp.risk_df[k].risk_pct),
                                 MissingRiskOf(uid, sc, resp.today)),
                            InactivityRiskOf(uid, sc, resp.today))
               IN  I # {} => grade_risk = RSub(RInt(100), MeanPct(I))

\* a student with the grades 30/50 and 90/100: the average is 75.0, where the
\* points earned over the points to earn would give 80.0
C19_Witness ==
    /\ StudentOk
    /\ LET I == GradesOf(resp.user_id, {resp.course_id})
       IN  /\ Cardinality(I) = 2
           /\ \E i, j \in I : grade[i].maxscore # grade[j].maxscore
    /\ resp.avg_grade_pct = RInt(75)

\* the learners a teacher dashboard is about: everyone enrolled in the course, or
\* the students of the teacher's courses
CohortOf(r) ==
    IF r.op = "teacher_course" THEN EnrolledIn({r.course_id}) ELSE StudentsOf(ScopeOf(r))

\* the risk of a learner, from the tables
RiskOf(uid, scope, as_of) ==
    RDiv(RAdd(RAdd(GradeRiskOf(uid, scope), MissingRiskOf(uid, scope, as_of)),
              InactivityRiskOf(uid, scope, as_of)),
         RInt(3))

\* the learners listed in risk_top
TopUsers == {resp.risk_top[k].user_id : k \in DOMAIN resp.risk_top}

\* C20: risk_top of both teacher dashboards is in descending order of risk_pct,
\* has at most 10 entries, each a learner of the cohort listed once with their
\* risk, and holds the 10 learners of highest risk: no learner left out has a
\* risk_pct above that of a learner listed.
C20_RiskTop ==
    TeacherOk =>
        LET top == resp.risk_top
            sc  == ScopeOf(resp)
        IN  /\ \A a, b \in DOMAIN top : a < b => RLe(top[b].risk_pct, top[a].risk_pct)
            /\ Len(top) <= 10
            /\ Len(top) = IF Cardinality(CohortOf(resp)) < 10
                          THEN Cardinality(CohortOf(resp)) ELSE 10
            /\ Cardinality(TopUsers) = Len(top)
            /\ TopUsers \subseteq CohortOf(resp)
            /\ \A k \in DOMAIN top : top[k].risk_pct = RiskOf(top[k].user_id, sc, resp.today)
            /\ \A u \in CohortOf(resp) \ TopUsers :
                   \A k \in DOMAIN top : ~ RLt(top[k].risk_pct, RiskOf(u, sc, resp.today))

\* a cohort of more than 10 learners whose risk rises along the enrolment rows:
\* risk_top lists 10 of them, and the learner enrolled first is left out
C20_Witness ==
    /\ TeacherOk
    /\ Cardinality(CohortOf(resp)) > 10
    /\ Len(resp.risk_top) = 10
    /\ RLt(resp.risk_top[10].risk_pct, resp.risk_top[1].risk_pct)
    /\ \E i \in DOMAIN enrol :
           /\ enrol[i].user_id \in CohortOf(resp) \ TopUsers
           /\ \A j \in DOMAIN enrol : enrol[j].user_id \in TopUsers => i < j

----------------------------------------------------------------------------
(* The at-risk count as a function of its threshold *)

\* thresholds the count is taken at, next to the 60 of the handlers
Thresholds == {0, 40, 50, 60, 65, 100}

\* mutant of AtRiskCountAbove: the learners below the threshold are counted
AtRiskCountAbove_Below(risk_df, threshold) ==
    Len(SelectSeq(risk_df, LAMBDA rw : RLt(rw.risk_pct, RInt(threshold))))

\* int((risk_df["risk_pct"] > at_risk_threshold).sum()), the threshold being a parameter
AtRiskCountAbove(risk_df, threshold) ==
    Len(SelectSeq(risk_df, LAMBDA rw : RLt(RInt(threshold), rw.risk_pct)))

\* C21: the at-risk count is monotonic in the threshold: for every cohort and
\* thresholds t1 <= t2 at least as many learners have risk_pct > t1 as have
\* risk_pct > t2, the at_risk_count of the dashboards being the count at 60, so a
\* threshold below 60 never gives a smaller count.
C21_MonotonicInThreshold ==
    TeacherOk =>
        /\ resp.at_risk_count = AtRiskCountAbove(resp.risk_df, at_risk_threshold)
        /\ \A t1, t2 \in Thresholds :
               t1 <= t2 => AtRiskCountAbove(resp.risk_df, t1)
                              >= AtRiskCountAbove(resp.risk_df, t2)
        /\ \A t \in Thresholds :
               t <= at_risk_threshold =>
                   AtRiskCountAbove(resp.risk_df, t) >= resp.at_risk_count

\* a cohort whose count grows at each step down from 65 to 60 to 50, with a
\* learner at exactly 60
C21_Witness ==
    /\ TeacherOk
    /\ \E k \in DOMAIN resp.risk_df : resp.risk_df[k].risk_pct = RInt(60)
    /\ AtRiskCountAbove(resp.risk_df, 65) > 0
    /\ resp.at_risk_count > AtRiskCountAbove(resp.risk_df, 65)
    /\ AtRiskCountAbove(resp.risk_df, 50) > resp.at_risk_count
    /\ AtRiskCountAbove(resp.risk_df, 100) = 0

----------------------------------------------------------------------------
(* Enrolment: users of several roles, enrolled once, twice or in two courses *)

\* next to Users0 a mentor and a second teacher
EnrolUsers ==
    Users0 \o << [user_id |-> 4, role |-> "mentor"], [user_id |-> 5, role |-> "teacher"] >>

En(c, u) == [course_id |-> c, user_id |-> u]

\* the rows of Enrol0; teacher 3 in both courses with student 1 in both, student 2
\* twice in course 1, the mentor in course 1 and teacher 5 in course 2; teacher 3
\* twice in course 1 with student 1 and a user that user_dim does not hold; the
\* students in a course without teacher; no row
EnrolCases ==
    { Enrol0,
      << En(1, 3), En(2, 3), En(1, 1), En(2, 1), En(1, 2), En(1, 2), En(1, 4), En(2, 5) >>,
      << En(1, 3), En(1, 3), En(1, 1), En(1, 9) >>,
      << En(2, 1), En(2, 2) >>,
      <<>> }

\* no grade; student 1 with full marks in course 1 and none in course 2, student 2
\* with 10 %
EnrolGrades ==
    { <<>>,
      << G(1, 1, 1, 100, 100), G(1, 2, 1, 10, 100), G(2, 1, 1, 0, 100) >> }

\* no event; events of student 1 and of the mentor on Day0
EnrolEvents == { <<>>, << E(1, 1, At(Day0, 9, 0)), E(4, 1, At(Day0, 9, 30)) >> }

InitEnrol ==
    /\ base_exists = TRUE
    /\ user_dim = EnrolUsers
    /\ course_dim = Courses0
    /\ enrol \in EnrolCases
    /\ grade \in EnrolGrades
    /\ subm = <<>>
    /\ events \in EnrolEvents
    /\ daily = Daily0
    /\ rating = NoRating
    /\ sysdate = Day0
    /\ argsort_ties \in TieRules
    /\ resp = NoResponse

SpecEnrol == InitEnrol /\ [][Next]_vars

\* the users of the rows of the whole cohort
CohortUsersOf(r) == {r.risk_df[k].user_id : k \in DOMAIN r.risk_df}

\* the enrolment rows of a user in the courses
EnrolRows(u, scope) ==
    {i \in DOMAIN enrol : enrol[i].user_id = u /\ enrol[i].course_id \in scope}

\* C22: enrolment is counted with set semantics: total_students counts each
\* user_id once however many enrolment rows the user has, for a user enrolled
\* several times in one course (teacher_course_dashboard) and for a student
\* enrolled in several of the teacher's courses (teacher_overall_dashboard), and
\* each such user has exactly one entry in the risk cohort.
C22_SetSemantics ==
    TeacherOk =>
        /\ resp.total_students = Cardinality(CohortOf(resp))
        /\ CohortUsersOf(resp) = CohortOf(resp)
        /\ Len(resp.risk_df) = Cardinality(CohortOf(resp))

\* the overall dashboard of a teacher of two courses, with a student enrolled in
\* both and a student enrolled twice in one: 2 students, one cohort entry each
C22_Witness ==
    /\ resp.op = "teacher_overall" /\ resp.status = 200
    /\ resp.total_courses = 2
    /\ \E u, v \in CohortOf(resp) :
           /\ \E i, j \in EnrolRows(u, ScopeOf(resp)) : enrol[i].course_id # enrol[j].course_id
           /\ \E i, j \in EnrolRows(v, ScopeOf(resp)) :
                  i # j /\ enrol[i].course_id = enrol[j].course_id
    /\ resp.total_students = 2
    /\ Len(resp.risk_df) = 2

\* the role of a user, as a set: empty for a user that user_dim does not hold
RoleOf(u) == {user_dim[i].role : i \in {j \in DOMAIN user_dim : user_dim[j].user_id = u}}

\* C29: the risk cohort of teacher_overall_dashboard holds exactly the users of
\* role student enrolled in at least one course the teacher is enrolled in: the
\* teacher and every other non-student user are in no entry of risk_top,
\* total_students is the size of the cohort, at_risk_count <= total_students and
\* 0 <= at_risk_pct <= 100; in teacher_course_dashboard the same bounds hold, the
\* cohort being every distinct user enrolled in the course.
C29_CohortMembers ==
    TeacherOk =>
        /\ resp.op = "teacher_overall" =>
               /\ CohortUsersOf(resp) =
                      {u \in EnrolledIn(ScopeOf(resp)) : RoleOf(u) = {"student"}}
               /\ \A k \in DOMAIN resp.risk_top :
                      /\ resp.risk_top[k].user_id # resp.teacher_id
                      /\ RoleOf(resp.risk_top[k].user_id) = {"student"}
        /\ resp.op = "teacher_course" =>
               CohortUsersOf(resp) = EnrolledIn({resp.course_id})
        /\ resp.total_students = Cardinality(CohortUsersOf(resp))
        /\ resp.total_students = Len(resp.risk_df)
        /\ 0 <= resp.at_risk_count /\ resp.at_risk_count <= resp.total_students
        /\ RLe(RInt(0), resp.at_risk_pct) /\ RLe(resp.at_risk_pct, RInt(100))

\* the overall dashboard of a teacher whose courses have, next to the students, a
\* mentor and another teacher enrolled: neither is in risk_top, and one student of
\* two is at risk
C29_Witness ==
    /\ resp.op = "teacher_overall" /\ resp.status = 200
    /\ \E u, v \in EnrolledIn(ScopeOf(resp)) \ {resp.teacher_id} :
           RoleOf(u) = {"mentor"} /\ RoleOf(v) = {"teacher"}
    /\ resp.risk_top # <<>>
    /\ resp.total_students = 2
    /\ resp.at_risk_count = 1
    /\ resp.at_risk_pct = RInt(50)

----------------------------------------------------------------------------
(* The data store: present or missing, with or without the optional ratings file *)

R(c, avg, num) == [course_id |-> c, avg_rating |-> avg, num_ratings |-> num]

\* course_rating.csv: absent or unreadable; without row; with a row of course 2
\* only; with the row of course 2 first and two rows of course 1
RatingCases ==
    { NoRating,
      [readable |-> TRUE, rows |-> <<>>],
      [readable |-> TRUE, rows |-> << R(2, 4, 12) >>],
      [readable |-> TRUE, rows |-> << R(2, 4, 12), R(1, 5, 3), R(1, 2, 7) >>] }

\* no event; events of course 1 in neither user nor time order, user 1's 20
\* minutes apart
StoreEvents == { <<>>, << E(2, 1, T0 + 10), E(1, 1, T0 + 20), E(1, 1, T0) >> }

\* no row; user 1's activity 1 submitted and overdue, activity 2 missing
StoreSubms ==
    { <<>>,
      << S(1, 1, 1, At(Day0 - 3, 8, 0), At(Day0 - 2, 12, 0)),
         S(1, 1, 2, NaT, At(Day0 - 1, 12, 0)) >> }

\* a grade of user 2, none of user 1
StoreGrades == { << G(1, 2, 1, 60, 100) >> }

\* BASE exists and the seven files are read, or BASE is missing and there is no
\* file to read
InitStore ==
    \/ /\ base_exists = TRUE
       /\ user_dim = Users0 /\ course_dim = Courses0 /\ enrol = Enrol0
       /\ grade \in StoreGrades
       /\ subm \in StoreSubms
       /\ events \in StoreEvents
       /\ daily = Daily0
       /\ rating \in RatingCases
       /\ sysdate = Day0
       /\ argsort_ties \in TieRules
       /\ resp = NoResponse
    \/ /\ base_exists = FALSE
       /\ user_dim = <<>> /\ course_dim = <<>> /\ enrol = <<>> /\ grade = <<>>
       /\ subm = <<>> /\ events = <<>> /\ daily = <<>>
       /\ rating = NoRating
       /\ sysdate = Day0
       /\ argsort_ties \in TieRules
       /\ resp = NoResponse

SpecStore == InitStore /\ [][Next]_vars

\* the seven tables a dashboard reads
inputs == <<user_dim, course_dim, enrol, grade, subm, events, daily>>

\* C23: no dashboard call changes its input tables: when student_dashboard,
\* teacher_course_dashboard or teacher_overall_dashboard has returned or failed,
\* the user, course, enrolment, grade, submission, event and daily-KPI tables have
\* the rows, columns and row order they had before the call.
C23_InputsUnchanged ==
    [][ (Idle /\ resp' # NoResponse) => inputs' = inputs ]_vars

\* an overall dashboard has been computed from events that are in neither user nor
\* time order and from a submitted overdue row: the learning hours were taken from
\* the sorted events and the row was counted as ungraded
C23_Witness ==
    /\ resp.op = "teacher_overall" /\ resp.status = 200
    /\ \E i, j \in DOMAIN events :
           i < j /\ events[i].user_id > events[j].user_id
    /\ \E i, j \in DOMAIN events :
           /\ i < j /\ events[i].user_id = events[j].user_id
           /\ events[i].timestamp > events[j].timestamp
    /\ resp.avg_learning_hours_teacher_courses = {Rat(33, 100)}
    /\ resp.ungraded_submissions = 1

\* the rows of the ratings file for a course, none when the file cannot be read
RatingRowsOf(course_id) ==
    IF rating.readable
    THEN {i \in DOMAIN rating.rows : rating.rows[i].course_id = course_id}
    ELSE {}

\* C24: the rating aggregate of teacher_course_dashboard is (avg_rating 0,
\* num_ratings 0), and the call succeeds, when the optional ratings source is
\* absent or unreadable, when it is empty and when it has no row for the course;
\* otherwise it is the avg_rating and num_ratings of the course's row, the first
\* one when the course has several.
C24_RatingAggregate ==
    /\ base_exists =>
           \A c \in CourseReqIds \cap CourseIds : teacher_course_dashboard(c).status = 200
    /\ (resp.op = "teacher_course" /\ resp.status = 200) =>
           LET rows == RatingRowsOf(resp.course_id)
           IN  IF rows = {}
               THEN resp.course_rating = [avg_rating |-> 0, num_ratings |-> 0]
               ELSE LET first == CHOOSE i \in rows : \A j \in rows : i <= j
                    IN  resp.course_rating =
                            [avg_rating |-> rating.rows[first].avg_rating,
                             num_ratings |-> rating.rows[first].num_ratings]

\* a course dashboard computed with a ratings file whose first row is of another
\* course: the aggregate is that of the course's own row
C24_Witness ==
    /\ resp.op = "teacher_course" /\ resp.status = 200
    /\ rating.readable
    /\ rating.rows # <<>>
    /\ rating.rows[1].course_id # resp.course_id
    /\ Cardinality(RatingRowsOf(resp.course_id)) = 2
    /\ resp.course_rating = [avg_rating |-> 5, num_ratings |-> 3]

\* the error load_data raises when the data store is missing
StoreMissing(op) == [op |-> op, status |-> 500, detail |-> "sample_data not found"]

\* C25: when the backing data store is missing the loader fails with a
\* data-source-unavailable error before any id lookup or computation of a
\* dashboard: every dashboard call ends in that error, never in a not-found error
\* or a payload, whatever ids it names.
C25_StoreMissing ==
    ~base_exists =>
        /\ \A u \in StudentReqIds, c \in CourseReqIds :
               student_dashboard(u, c) = StoreMissing("student")
        /\ \A c \in CourseReqIds : teacher_course_dashboard(c) = StoreMissing("teacher_course")
        /\ \A t \in TeacherReqIds :
               teacher_overall_dashboard(t) = StoreMissing("teacher_overall")
        /\ ~Idle => resp.status = 500 /\ DOMAIN resp = {"op", "status", "detail"}

\* with the store missing a student dashboard has failed with the loader's error,
\* as it does for ids that no table could hold
C25_Witness ==
    /\ ~base_exists
    /\ resp.op = "student" /\ resp.status = 500
    /\ resp = student_dashboard(9, 9)

----------------------------------------------------------------------------
(* Activity figures of the dashboards *)

\* the server is returning an overall teacher dashboard
OverallOk == resp.op = "teacher_overall" /\ resp.status = 200

\* C26: teacher_overall_dashboard returns a defined, finite number as
\* avg_learning_hours (not NaN, not an error) when no pair of consecutive events of
\* one user has a qualifying gap: the teacher has no students, the students have
\* no events, or every student has a single event.
C26_FiniteLearningHours ==
    ( /\ OverallOk
      /\ \A p \in ConsecutiveGaps(ScopeOf(resp)) : ~ (1 < p[3] /\ p[3] < 30) )
        => resp.avg_learning_hours_teacher_courses # {}

\* the days from a learner's latest event in the courses to as_of, for a learner
\* with an event there
DaysSince(u, scope, as_of) ==
    LET ts == EventsOf(u, scope)
    IN  as_of - ((CHOOSE t \in ts : \A x \in ts : x <= t) \div MinPerDay)

\* C27: inactive_students_7d of teacher_overall_dashboard counts the students of
\* the teacher's courses who have been inactive for 7 days or more within those
\* courses: a student whose latest event there is dated exactly 7 days before
\* as_of is counted, and events in courses the teacher does not manage do not make
\* a student active. (A student with no event in the courses may or may not count.)
C27_InactiveSevenDays ==
    OverallOk =>
        LET sc     == ScopeOf(resp)
            stale  == {u \in StudentsOf(sc) :
                          EventsOf(u, sc) # {} /\ DaysSince(u, sc, resp.today) >= 7}
            silent == {u \in StudentsOf(sc) : EventsOf(u, sc) = {}}
        IN  /\ Cardinality(stale) <= resp.inactive_students_7d
            /\ resp.inactive_students_7d <= Cardinality(stale) + Cardinality(silent)

\* C28: in student_dashboard(user_id, course_id) missing_count, due_soon_count and
\* the two task lists are computed over the user's submissions of all courses and
\* do not depend on course_id (calls for two existing courses give the same four
\* values), progress_pct and avg_grade_pct depend on rows of the requested course
\* only, and missing_count and due_soon_count are the lengths of missing_tasks and
\* due_soon_tasks.
C28_TasksOfAllCourses ==
    /\ \A u \in StudentReqIds \cap UserIds, c1, c2 \in CourseReqIds \cap CourseIds :
           LET a == student_dashboard(u, c1)
               b == student_dashboard(u, c2)
           IN  /\ a.missing_count = b.missing_count
               /\ a.due_soon_count = b.due_soon_count
               /\ a.missing_tasks = b.missing_tasks
               /\ a.due_soon_tasks = b.due_soon_tasks
    /\ StudentOk =>
           /\ resp.missing_count = Len(resp.missing_tasks)
           /\ resp.due_soon_count = Len(resp.due_soon_tasks)
           /\ RowsOf(resp.missing_tasks) =
                  {i \in DOMAIN subm : /\ subm[i].user_id = resp.user_id
                                       /\ subm[i].submitted_at = NaT
                                       /\ subm[i].duedate \div MinPerDay < resp.today}
           /\ RowsOf(resp.due_soon_tasks) =
                  {i \in DOMAIN subm : /\ subm[i].user_id = resp.user_id
                                       /\ subm[i].submitted_at = NaT
                                       /\ resp.today <= subm[i].duedate \div MinPerDay
                                       /\ subm[i].duedate \div MinPerDay <= resp.today + 7}
           /\ LET items == Cardinality(ItemsOf(resp.course_id))
                  done  == Cardinality(SubmittedBy(resp.user_id, resp.course_id))
                  I     == GradesOf(resp.user_id, {resp.course_id})
              IN  /\ resp.progress_pct =
                         IF items = 0 THEN RInt(0) ELSE Round1(Rat(100 * done, items))
                  /\ resp.avg_grade_pct = IF I = {} THEN RInt(0) ELSE Round1(MeanPct(I))

\* the dashboard of a course lists a missing task of another course and a
\* due-soon task of its own, and the user's average grade is another in the other
\* course
C28_Witness ==
    /\ StudentOk
    /\ \E k \in DOMAIN resp.missing_tasks :
           subm[resp.missing_tasks[k].row].course_id # resp.course_id
    /\ \E k \in DOMAIN resp.due_soon_tasks :
           subm[resp.due_soon_tasks[k].row].course_id = resp.course_id
    /\ \E c \in CourseIds \ {resp.course_id} :
           student_dashboard(resp.user_id, c).avg_grade_pct # resp.avg_grade_pct

\* C30: in student_dashboard last_active and days_inactive are both null exactly
\* when the user has no event in any course; otherwise last_active is the date of
\* the user's latest event over all courses and days_inactive the whole days
\* as_of - last_active, which is never negative.
C30_DaysInactive ==
    StudentOk =>
        LET last == LastEventDay(resp.user_id)
        IN  /\ resp.last_active = {} <=> last = {}
            /\ resp.days_inactive = {} <=> last = {}
            /\ resp.last_active = {IsoFormat(l) : l \in last}
            /\ resp.days_inactive = {resp.today - l : l \in last}
            /\ \A d \in resp.days_inactive : d >= 0

====
